---- MODULE Spec2Model ----
(***************************************************************************)
(* A model of the sing-box web configuration manager: the Config Store     *)
(* (internal/config Manager: load, save with backup, named backups,        *)
(* restore, section updates, outbound rename) and the HTTP handlers that   *)
(* reorder rules and outbounds.                                            *)
(*                                                                         *)
(* A file's bytes are modelled up to whitespace and key order by a record  *)
(* (Doc).  A request runs as a sequence of steps (pc); the steps of one    *)
(* request are not interleaved with another request's, external edits of   *)
(* the configuration file happen between requests, and the clock may       *)
(* advance between any two steps.                                          *)
(***************************************************************************)
EXTENDS Integers, Sequences, FiniteSets, TLC

VARIABLES
    configExists,   \* the configuration file exists on disk
    configData,     \* its content (NoData when it does not exist)
    backups,        \* backup directory: filename -> content of <filename>.json
    metas,          \* backup directory: filename -> content of <filename>.json.meta
    mtimes,         \* backup directory: filename -> modification time of <filename>.json
    now,            \* the wall clock, in seconds
    pc,             \* position of the running request ("idle" between requests)
    req,            \* the running request's locals
    result,         \* outcome of the last finished request
    hist,           \* history: what the disk held when the request began
    served,         \* requests and external edits so far
    relay,          \* the WebSocket relay: handler, forwarding goroutines, connections
    watcher,        \* the file watcher: clock, debounce timer, events and callbacks
    inflight,       \* concurrent handleRuleCreate requests: position and locals of each
    clash,          \* Server.clashURL, clashSecret, clashClient, the endpoint file, two requests
    browser         \* the ConnectionsManager of connections.js: socket, counter, timer

vars ==
    <<configExists, configData, backups, metas, mtimes, now, pc, req, result,
      hist, served, relay, watcher, inflight, clash, browser>>

\* The store and the request it is serving
store ==
    <<configExists, configData, backups, metas, mtimes, now, pc, req, result,
      hist, served>>

\* The components a Config Store request leaves alone
beside == <<relay, watcher, inflight, clash, browser>>

----------------------------------------------------------------------------
(* Bounds of the model *)

MaxTime == 1        \* the clock stops advancing at this second
MaxOps == 2         \* requests and external edits in one behaviour
MaxMembers == 2     \* members of a selector/urltest group
MaxList == 3        \* entries of a rule list or outbound list that is reordered
MaxGroup == 3       \* members of a proxy group whose delay is tested
MaxFrames == 2      \* frames each peer of the WebSocket relay sends
MaxEvents == 3      \* file-system events the watcher receives
MaxClock == 4       \* ticks of the watcher's clock
MaxWriters == 2     \* handleRuleCreate requests served concurrently
MaxFields == 2      \* fields of a struct the form builder reflects on

----------------------------------------------------------------------------
(* Documents *)

Tags == {"a", "b", "c"}

Max(x, y) == IF x > y THEN x ELSE y

\* Go slice expression s[lo:hi] with 0-based bounds
Slice(s, lo, hi) == SubSeq(s, lo + 1, hi)

SeqsUpTo(S, n) == UNION {[1..k -> S] : k \in 0..n}

Range(s) == {s[i] : i \in DOMAIN s}

\* An outbound is a JSON object: "tag", "type", and for groups "outbounds"
\* (members) and "default" ("" stands for an absent key).
Outbound(tag, type, members, def) ==
    [tag |-> tag, type |-> type, outbounds |-> members, default |-> def]

\* A rule is a JSON object: match fields (id) and "outbound".
Rule(id, ob) == [id |-> id, outbound |-> ob]

\* The content of a file.  json: the bytes parse as a JSON object.  extra: a
\* top-level section the Config struct does not declare.  routeExtra: a field
\* of "route" that RouteConfig does not declare.  hasRules: "route" has a
\* "rules" array (possibly empty).  final "": no "final" key.  ruleAction:
\* the "rule_action" array of "route" (empty: no such key).
EmptyDoc ==
    [json |-> TRUE, extra |-> FALSE, outbounds |-> <<>>, hasRoute |-> FALSE,
     hasRules |-> FALSE, rules |-> <<>>, final |-> "", routeExtra |-> FALSE,
     ruleAction |-> <<>>]

Garbage == [EmptyDoc EXCEPT !.json = FALSE]

NoData == Garbage

RouteDoc(obs, hasRules, rules, final, extra, routeExtra) ==
    [json |-> TRUE, extra |-> extra, outbounds |-> obs, hasRoute |-> TRUE,
     hasRules |-> hasRules, rules |-> rules, final |-> final,
     routeExtra |-> routeExtra, ruleAction |-> <<>>]

\* Config / RouteConfig: the Go value json.Unmarshal fills.  route: Route is
\* not nil.  rulesNil: Route.Rules is a nil slice.
DefaultConfig ==
    [outbounds |-> <<>>, route |-> TRUE, rulesNil |-> FALSE, rules |-> <<>>,
     final |-> "direct", ruleAction |-> <<>>]

\* json.Unmarshal(data, &config): only declared fields are kept
Unmarshal(d) ==
    [outbounds |-> d.outbounds,
     route |-> d.hasRoute,
     rulesNil |-> ~(d.hasRoute /\ d.hasRules),
     rules |-> IF d.hasRoute /\ d.hasRules THEN d.rules ELSE <<>>,
     final |-> IF d.hasRoute THEN d.final ELSE "",
     ruleAction |-> IF d.hasRoute THEN d.ruleAction ELSE <<>>]

\* json.MarshalIndent(config): omitempty drops nil pointers, empty slices
\* and empty strings
MarshalIndent(c) ==
    [json |-> TRUE, extra |-> FALSE, outbounds |-> c.outbounds,
     hasRoute |-> c.route,
     hasRules |-> c.route /\ c.rules # <<>>,
     rules |-> IF c.route THEN c.rules ELSE <<>>,
     final |-> IF c.route THEN c.final ELSE "",
     routeExtra |-> FALSE,
     ruleAction |-> IF c.route THEN c.ruleAction ELSE <<>>]

----------------------------------------------------------------------------
(* Backup files *)

\* Characters that sanitizeFilename replaces by a dash
InvalidChars == {"/", "\\", ":", "*", "?", "\"", "<", ">", "|"}

RECURSIVE TrimLeft(_)
TrimLeft(s) == IF s # <<>> /\ Head(s) = "-" THEN TrimLeft(Tail(s)) ELSE s

RECURSIVE TrimRight(_)
TrimRight(s) ==
    IF s # <<>> /\ s[Len(s)] = "-" THEN TrimRight(SubSeq(s, 1, Len(s) - 1)) ELSE s

\* sanitizeFilename(name); a name is a sequence of characters (a word without
\* any special character counts as one character)
sanitizeFilename(name) ==
    LET replaced == [i \in DOMAIN name |->
                        IF name[i] \in InvalidChars \/ name[i] = " "
                        THEN "-" ELSE name[i]]
    IN  TrimRight(TrimLeft(replaced))

\* fmt.Sprintf("Auto backup %s", timestamp.Format("2006-01-02 15:04:05"))
AutoBackupName(t) == <<"Auto", " ", "backup", " ", ToString(t)>>

\* fmt.Sprintf("%s-%s.json", safeName, timestamp.Format("20060102-150405"))
BackupFilename(name, t) ==
    LET safeName == sanitizeFilename(name)
    IN  [name |-> IF safeName = <<>> THEN <<"backup">> ELSE safeName,
         stamp |-> t]

\* BackupMetadata written to the .meta sidecar
Metadata(name, description, t, file) ==
    [name |-> name, description |-> description, timestamp |-> t,
     configFile |-> file, json |-> TRUE]

BadMetadata == [name |-> <<>>, description |-> "", timestamp |-> 0,
                configFile |-> [name |-> <<>>, stamp |-> 0], json |-> FALSE]

\* os.WriteFile(path, data): the map with the file written
WriteFile(dir, file, data) ==
    [f \in DOMAIN dir \cup {file} |-> IF f = file THEN data ELSE dir[f]]

\* A directory without files
EmptyDir == [f \in {} |-> NoData]

\* A name no backup file has
MissingFile == [name |-> <<"missing">>, stamp |-> 0]

----------------------------------------------------------------------------
(* The components beside the store, before they are started *)

\* errChan := make(chan error, 2)
ErrChanCap == 2

\* The relay before a browser connects.  up: the goroutine forwarding from
\* the Clash API to the client; down: the one forwarding from the client.
\* fromClash, fromClient: frames a peer has sent that are not read yet;
\* readClash, readClient, toClient, toClash: the frames read and written.
NoRelay ==
    [handler |-> "idle", up |-> "none", down |-> "none",
     upMsg |-> [id |-> 0, json |-> TRUE], downMsg |-> [id |-> 0, json |-> TRUE],
     errChan |-> 0, done |-> FALSE,
     clientConn |-> "none", clashConn |-> "none",
     clientPeer |-> "open", clashPeer |-> "open",
     fromClash |-> <<>>, fromClient |-> <<>>,
     readClash |-> <<>>, readClient |-> <<>>,
     toClient |-> <<>>, toClash |-> <<>>,
     sentClash |-> 0, sentClient |-> 0]

\* time.AfterFunc(500*time.Millisecond, ...): the debounce delay, in ticks of
\* the watcher's clock (one tick stands for 250 ms)
Debounce == 2

\* The watcher before Start.  timers: every timer made by time.AfterFunc, with
\* its deadline and whether it is pending, stopped or has fired; timer: the
\* index of the one the loop's variable refers to (0 for nil); events: the
\* times of the events that passed the filter; calls: the onChange calls,
\* each with its time and the number of such events before it.
NoWatcher ==
    [loop |-> "new", clock |-> 0, seen |-> 0, logged |-> 0,
     timer |-> 0, timers |-> <<>>, events |-> <<>>, calls |-> <<>>]

NoInflight == <<>>

\* A URL string: its protocol prefix ("" when it has none) and the rest
EmptyURL == [scheme |-> "", host |-> ""]

\* clash.Config: what the endpoint file holds and what a request carries
NoEndpoint == [url |-> EmptyURL, secret |-> ""]

\* s.clashClient == nil
NoClient == [nil |-> TRUE, baseURL |-> EmptyURL, secret |-> ""]

\* The locals of a handleClashUpdate request and of a handleProxiesSettings
\* request
NoUpdate == [pc |-> "idle", url |-> EmptyURL, secret |-> "", status |-> 0,
             tested |-> FALSE]

NoSettings == [pc |-> "idle", url |-> EmptyURL, secret |-> "",
               hasClient |-> FALSE]

\* The server without an upstream endpoint.  file: the endpoint file
\* (NoEndpoint: none).  before: the fields and the file when the update
\* began.  triples: the endpoints the server has been given.
NoClash ==
    [url |-> EmptyURL, secret |-> "", client |-> NoClient,
     file |-> NoEndpoint, update |-> NoUpdate, reader |-> NoSettings,
     before |-> [url |-> EmptyURL, secret |-> "", client |-> NoClient,
                 file |-> NoEndpoint],
     triples |-> {}, updates |-> 0, reads |-> 0]

\* The ConnectionsManager after its constructor, before init()
NoBrowser ==
    [ws |-> "none", reconnectAttempts |-> 0, timer |-> 0, clock |-> 0,
     opens |-> 0, scheduled |-> <<>>]

----------------------------------------------------------------------------
(* Requests *)

\* A form or query value read as an index: the decimal text of an integer,
\* or any other text (the empty string included)
FormInt(i) == [digits |-> TRUE, n |-> i]

FormText == [digits |-> FALSE, n |-> 0]

\* strconv.Atoi(s): the integer, or an error
Atoi(s) == [err |-> ~s.digits, n |-> IF s.digits THEN s.n ELSE 0]

NoReq ==
    [op |-> "none", config |-> DefaultConfig, data |-> NoData, name |-> <<>>,
     description |-> "", file |-> MissingFile, rules |-> <<>>,
     old |-> "", new |-> "", from |-> 0, to |-> 0,
     fromStr |-> FormInt(0), toStr |-> FormInt(0),
     struct |-> <<>>, form |-> <<>>, rule |-> Rule(0, ""),
     wroteBackup |-> FALSE, wroteConfig |-> FALSE, list |-> <<>>,
     group |-> "", members |-> <<>>, answers |-> <<>>, results |-> <<>>]

NoResult ==
    [op |-> "none", err |-> "", status |-> 0, reloads |-> 0,
     reloadFailed |-> FALSE]

NoHist ==
    [exists |-> FALSE, data |-> NoData, backups |-> EmptyDir,
     metas |-> EmptyDir]

Snapshot ==
    [exists |-> configExists, data |-> configData, backups |-> backups,
     metas |-> metas]

\* LoadConfig: err "" and the configuration, or an error
LoadConfig ==
    IF ~configExists THEN [err |-> "", config |-> DefaultConfig]
    ELSE IF ~configData.json THEN [err |-> "parse", config |-> DefaultConfig]
    ELSE [err |-> "", config |-> Unmarshal(configData)]

\* GetRules: the rule list LoadConfig's configuration holds
GetRules ==
    LET l == LoadConfig
    IN  IF l.err # "" THEN [err |-> l.err, rules |-> <<>>]
        ELSE IF ~l.config.route THEN [err |-> "", rules |-> <<>>]
        ELSE [err |-> "", rules |-> l.config.rules]

\* GetOutbounds
GetOutbounds ==
    LET l == LoadConfig
    IN  IF l.err # "" THEN [err |-> l.err, outbounds |-> <<>>]
        ELSE [err |-> "", outbounds |-> l.config.outbounds]

\* The request returns err to its caller; a handler answers with status
Finish(err, status) ==
    /\ pc' = "done"
    /\ result' = [op |-> req.op, err |-> err, status |-> status,
                  reloads |-> result.reloads, reloadFailed |-> FALSE]

HandlerOps ==
    {"rename", "ruleReorder", "outboundReorder", "outboundCreate",
     "outboundUpdate", "outboundDelete", "ruleCreate", "ruleDelete",
     "ruleUpdate", "groupUpdate", "ruleActionCreate", "ruleActionUpdate",
     "ruleActionDelete"}

\* The requests a handler of the server serves: those that end in SaveConfig
\* and handleConfigRestore
ServerOps == HandlerOps \cup {"configRestore"}

\* The status a failed manager call gives: a handler answers 500
Failed == IF req.op \in ServerOps THEN 500 ELSE 0

\* A request begins: its locals, and the history of what the disk held
Begin(r, next) ==
    /\ pc = "idle"
    /\ served < MaxOps
    /\ served' = served + 1
    /\ req' = r
    /\ hist' = Snapshot
    /\ pc' = next
    /\ result' = NoResult
    /\ UNCHANGED beside

Disk == <<configExists, configData, backups, metas, mtimes>>

----------------------------------------------------------------------------
(* Manager.BackupConfig and Manager.CreateBackupWithName *)

\* Where the request continues when its backup step returned nil
AfterBackup ==
    IF req.op \in {"restore", "configRestore"} THEN "RestoreWrite"
    ELSE IF req.op = "create" THEN "done"
    ELSE "WriteConfig"

BackupReturns(err) ==
    IF err # "" THEN Finish(err, Failed)
    ELSE IF req.op = "create" THEN Finish("", 0)
    ELSE pc' = AfterBackup /\ result' = result

\* Mutant: SaveConfig goes on without backing up
BackupConfig_Skips ==
    /\ pc = "BackupConfig"
    /\ pc' = AfterBackup
    /\ UNCHANGED <<Disk, now, req, result, hist, served, beside>>

\* BackupConfig: nothing to back up without a configuration file; otherwise
\* the automatic name is made from the clock and CreateBackupWithName runs
BackupConfig ==
    /\ pc = "BackupConfig"
    /\ IF ~configExists
       THEN /\ pc' = AfterBackup
            /\ req' = req
       ELSE /\ pc' = "CreateBackup"
            /\ req' = [req EXCEPT !.name = AutoBackupName(now),
                                  !.description = "Automatic backup"]
    /\ UNCHANGED <<Disk, now, result, hist, served, beside>>

\* Mutant: no check that the configuration file exists; an empty backup
\* file is written
CreateBackupNoConfig_WritesEmpty ==
    /\ pc = "CreateBackup"
    /\ ~configExists
    /\ backups' = WriteFile(backups, BackupFilename(req.name, now), Garbage)
    /\ mtimes' = WriteFile(mtimes, BackupFilename(req.name, now), now)
    /\ BackupReturns("")
    /\ UNCHANGED <<configExists, configData, metas, now, req, hist, served, beside>>

\* CreateBackupWithName with no configuration file: return nil
CreateBackupNoConfig ==
    /\ pc = "CreateBackup"
    /\ ~configExists
    /\ BackupReturns("")
    /\ UNCHANGED <<Disk, now, req, hist, served, beside>>

\* os.ReadFile(m.configPath) fails
CreateBackupReadFails ==
    /\ pc = "CreateBackup"
    /\ configExists
    /\ BackupReturns("backup")
    /\ UNCHANGED <<Disk, now, req, hist, served, beside>>

\* os.WriteFile(backupPath, data) fails: the backup file is left as it was
\* or truncated
CreateBackupWriteFails ==
    /\ pc = "CreateBackup"
    /\ configExists
    /\ \/ UNCHANGED <<backups, mtimes>>
       \/ /\ backups' = WriteFile(backups, BackupFilename(req.name, now), Garbage)
          /\ mtimes' = WriteFile(mtimes, BackupFilename(req.name, now), now)
    /\ BackupReturns("backup")
    /\ UNCHANGED <<configExists, configData, metas, now, req, hist, served, beside>>

\* the backup file is written and os.WriteFile(metadataPath, ...) fails
CreateBackupMetaFails ==
    /\ pc = "CreateBackup"
    /\ configExists
    /\ LET file == BackupFilename(req.name, now)
       IN  /\ backups' = WriteFile(backups, file, configData)
           /\ mtimes' = WriteFile(mtimes, file, now)
           /\ \/ UNCHANGED metas
              \/ metas' = WriteFile(metas, file, BadMetadata)
    /\ req' = [req EXCEPT !.wroteBackup = TRUE]
    /\ BackupReturns("backup")
    /\ UNCHANGED <<configExists, configData, now, hist, served, beside>>

\* The backup file and its metadata sidecar are written
CreateBackupWritesFile ==
    /\ pc = "CreateBackup"
    /\ configExists
    /\ LET file == BackupFilename(req.name, now)
       IN  /\ backups' = WriteFile(backups, file, configData)
           /\ mtimes' = WriteFile(mtimes, file, now)
           /\ metas' = WriteFile(metas, file,
                                 Metadata(req.name, req.description, now, file))
    /\ req' = [req EXCEPT !.wroteBackup = TRUE]
    /\ BackupReturns("")
    /\ UNCHANGED <<configExists, configData, now, hist, served, beside>>

CreateBackupStep ==
    \/ CreateBackupNoConfig
    \/ CreateBackupReadFails
    \/ CreateBackupWriteFails
    \/ CreateBackupMetaFails
    \/ CreateBackupWritesFile

\* CreateBackupWithName(name, description) called on the manager
CreateBackupWithName(name, description) ==
    /\ Begin([NoReq EXCEPT !.op = "create", !.name = name,
                           !.description = description], "CreateBackup")
    /\ UNCHANGED <<Disk, now>>

----------------------------------------------------------------------------
(* Manager.SaveConfig *)

\* After a successful write a handler reloads the service; a manager call
\* returns
Saved ==
    IF req.op \in ServerOps
    THEN pc' = "Reload" /\ result' = result
    ELSE Finish("", 0)

\* os.WriteFile(m.configPath, data) succeeds
WriteConfigOk ==
    /\ pc = "WriteConfig"
    /\ configExists' = TRUE
    /\ configData' = MarshalIndent(req.config)
    /\ req' = [req EXCEPT !.wroteConfig = TRUE]
    /\ Saved
    /\ UNCHANGED <<backups, metas, mtimes, now, hist, served, beside>>

\* os.WriteFile(m.configPath, data) fails: the file is left as it was or
\* truncated
WriteConfigFails ==
    /\ pc = "WriteConfig"
    /\ \/ UNCHANGED <<configExists, configData, req>>
       \/ /\ configExists' = TRUE
          /\ configData' = Garbage
          /\ req' = [req EXCEPT !.wroteConfig = TRUE]
    /\ Finish("write", Failed)
    /\ UNCHANGED <<backups, metas, mtimes, now, hist, served, beside>>

\* SaveConfig(config) called on the manager
SaveConfig(config) ==
    /\ Begin([NoReq EXCEPT !.op = "save", !.config = config], "BackupConfig")
    /\ UNCHANGED <<Disk, now>>

----------------------------------------------------------------------------
(* Manager.UpdateRules *)

\* The configuration UpdateRules(rules) hands to SaveConfig: the loaded one
\* with a route section and the rule list replaced
UpdateRulesConfig(rules) ==
    LET c == LoadConfig.config
    IN  [c EXCEPT !.route = TRUE, !.rules = rules, !.rulesNil = FALSE]

\* The configuration UpdateOutbounds(outbounds) hands to SaveConfig
UpdateOutboundsConfig(outbounds) ==
    [LoadConfig.config EXCEPT !.outbounds = outbounds]

\* Mutant: the loaded rule list is saved back, the new one is not set
UpdateRules_KeepsRules(rules) ==
    LET l == LoadConfig
        r == [NoReq EXCEPT !.op = "updateRules", !.rules = rules,
                           !.config = l.config]
    IN  /\ Begin(r, IF l.err # "" THEN "LoadFailed" ELSE "BackupConfig")
        /\ UNCHANGED <<Disk, now>>

\* UpdateRules(rules): load, set the rule list, save
UpdateRules(rules) ==
    LET r == [NoReq EXCEPT !.op = "updateRules", !.rules = rules,
                           !.config = UpdateRulesConfig(rules)]
    IN  /\ Begin(r, IF LoadConfig.err # "" THEN "LoadFailed"
                    ELSE "BackupConfig")
        /\ UNCHANGED <<Disk, now>>

\* LoadConfig returned an error: the request returns it
LoadFailed ==
    /\ pc = "LoadFailed"
    /\ Finish("load", Failed)
    /\ UNCHANGED <<Disk, now, req, hist, served, beside>>

----------------------------------------------------------------------------
(* Manager.LoadConfig called on its own *)

\* LoadConfig() called on the manager
LoadConfigCall ==
    /\ Begin([NoReq EXCEPT !.op = "load"], "LoadConfig")
    /\ UNCHANGED <<Disk, now>>

\* os.ReadFile(m.configPath) fails though the file exists
LoadConfigReadFails ==
    /\ pc = "LoadConfig"
    /\ configExists
    /\ Finish("read", 0)
    /\ UNCHANGED <<Disk, now, req, hist, served, beside>>

\* Mutant: the default configuration is written when the file is absent
LoadConfigReads_CreatesDefault ==
    /\ pc = "LoadConfig"
    /\ req' = [req EXCEPT !.config = LoadConfig.config]
    /\ Finish(LoadConfig.err, 0)
    /\ IF configExists THEN UNCHANGED <<configExists, configData>>
       ELSE /\ configExists' = TRUE
            /\ configData' = MarshalIndent(DefaultConfig)
    /\ UNCHANGED <<backups, metas, mtimes, now, hist, served, beside>>

\* The file is read, or is absent: LoadConfig returns what it parsed, the
\* default configuration, or the parse error (req.config: the returned value)
LoadConfigReads ==
    /\ pc = "LoadConfig"
    /\ req' = [req EXCEPT !.config = LoadConfig.config]
    /\ Finish(LoadConfig.err, 0)
    /\ UNCHANGED <<Disk, now, hist, served, beside>>

----------------------------------------------------------------------------
(* Manager.ListBackups *)

\* entry.Name() of a backup file
FilenameString(f) == f.name \o <<"-", ToString(f.stamp), ".json">>

\* os.ReadDir(m.backupDir): the backup files and the metadata sidecars
DirEntries ==
    {[file |-> f, ext |-> ".json"] : f \in DOMAIN backups}
      \cup {[file |-> f, ext |-> ".meta"] : f \in DOMAIN metas}

\* json.Unmarshal(metadataData, &metadata)
BackupMetadata(m) ==
    [name |-> m.name, description |-> m.description,
     timestamp |-> m.timestamp, configFile |-> m.configFile]

\* The sidecar of f is read, parses, and names its configuration file
UsableMetadata(f) ==
    /\ f \in DOMAIN metas
    /\ metas[f].json
    /\ metas[f].configFile.name # <<>>

\* The record for a backup file: its metadata, or one made from the file
\* name and the modification time
BackupInfo(f) ==
    [filename |-> f,
     metadata |-> IF UsableMetadata(f) THEN BackupMetadata(metas[f])
                  ELSE [name |-> FilenameString(f), description |-> "",
                        timestamp |-> mtimes[f], configFile |-> f]]

Perms(S) == {p \in [1..Cardinality(S) -> S] : Range(p) = S}

\* Mutant: the list is sorted with Before, oldest first
ListBackups_OldestFirst ==
    LET infos == {BackupInfo(e.file) : e \in {d \in DirEntries : d.ext = ".json"}}
    IN  {p \in Perms(infos) :
           \A i, j \in DOMAIN p :
              i < j => ~(p[j].metadata.timestamp < p[i].metadata.timestamp)}

\* ListBackups: a record for every entry with extension .json, sorted by
\* sort.Slice with Timestamp.After (any order sort.Slice may return: no
\* record is followed by one with a later timestamp)
ListBackups ==
    LET infos == {BackupInfo(e.file) : e \in {d \in DirEntries : d.ext = ".json"}}
    IN  {p \in Perms(infos) :
           \A i, j \in DOMAIN p :
              i < j => ~(p[j].metadata.timestamp > p[i].metadata.timestamp)}

\* ListBackups() called on the manager
ListBackupsCall ==
    /\ Begin([NoReq EXCEPT !.op = "list"], "ListBackups")
    /\ UNCHANGED <<Disk, now>>

\* os.ReadDir fails
ListBackupsReadDirFails ==
    /\ pc = "ListBackups"
    /\ Finish("readdir", 0)
    /\ UNCHANGED <<Disk, now, req, hist, served, beside>>

\* ListBackups returns the list (req.list: the returned value)
ListBackupsReturns ==
    /\ pc = "ListBackups"
    /\ \E l \in ListBackups : req' = [req EXCEPT !.list = l]
    /\ Finish("", 0)
    /\ UNCHANGED <<Disk, now, hist, served, beside>>

----------------------------------------------------------------------------
(* Manager.RestoreBackup *)

\* The name of the .meta sidecar of a backup file
MetaName(file) == [name |-> file.name \o <<".meta">>, stamp |-> file.stamp]

\* The name that leads from the backup directory to the configuration file
LiveName == [name |-> <<"..", "config">>, stamp |-> 0]

\* The bytes of a metadata sidecar read as a file: a JSON object, none of
\* whose keys the Config struct declares
MetaDoc(meta) == IF meta.json THEN [EmptyDoc EXCEPT !.extra = TRUE] ELSE Garbage

\* os.ReadFile(filepath.Join(m.backupDir, backupName)): a backup file, the
\* sidecar of one, the configuration file beside the directory, or no file
ReadBackupPath(file) ==
    IF file \in DOMAIN backups
    THEN [ok |-> TRUE, data |-> backups[file]]
    ELSE IF \E f \in DOMAIN metas : file = MetaName(f)
    THEN [ok |-> TRUE,
          data |-> MetaDoc(metas[CHOOSE f \in DOMAIN metas :
                                   file = MetaName(f)])]
    ELSE IF file = LiveName /\ configExists
    THEN [ok |-> TRUE, data |-> configData]
    ELSE [ok |-> FALSE, data |-> NoData]

\* RestoreBackup(backupName): read and validate the backup
RestoreBackup(file) ==
    /\ Begin([NoReq EXCEPT !.op = "restore", !.file = file,
                           !.data = ReadBackupPath(file).data],
             "RestoreRead")
    /\ UNCHANGED <<Disk, now>>

\* Mutant: the backup is not validated
RestoreRead_NoValidation ==
    /\ pc = "RestoreRead"
    /\ IF ~ReadBackupPath(req.file).ok THEN Finish("read", Failed)
       ELSE pc' = "BackupConfig" /\ result' = result
    /\ UNCHANGED <<Disk, now, req, hist, served, beside>>

\* the backup is read and unmarshalled into a Config to validate it
RestoreRead ==
    /\ pc = "RestoreRead"
    /\ IF ~ReadBackupPath(req.file).ok THEN Finish("read", Failed)
       ELSE IF ~req.data.json THEN Finish("invalid", Failed)
       ELSE pc' = "BackupConfig" /\ result' = result
    /\ UNCHANGED <<Disk, now, req, hist, served, beside>>

\* Mutant: the validated Config is marshalled and written, not the bytes read
RestoreWriteOk_Reserialised ==
    /\ pc = "RestoreWrite"
    /\ configExists' = TRUE
    /\ configData' = MarshalIndent(Unmarshal(req.data))
    /\ req' = [req EXCEPT !.wroteConfig = TRUE]
    /\ Saved
    /\ UNCHANGED <<backups, metas, mtimes, now, hist, served, beside>>

\* os.WriteFile(m.configPath, data) with the backup's bytes
RestoreWriteOk ==
    /\ pc = "RestoreWrite"
    /\ configExists' = TRUE
    /\ configData' = req.data
    /\ req' = [req EXCEPT !.wroteConfig = TRUE]
    /\ Saved
    /\ UNCHANGED <<backups, metas, mtimes, now, hist, served, beside>>

RestoreWriteFails ==
    /\ pc = "RestoreWrite"
    /\ \/ UNCHANGED <<configExists, configData, req>>
       \/ /\ configExists' = TRUE
          /\ configData' = Garbage
          /\ req' = [req EXCEPT !.wroteConfig = TRUE]
    /\ Finish("write", Failed)
    /\ UNCHANGED <<backups, metas, mtimes, now, hist, served, beside>>

----------------------------------------------------------------------------
(* Handlers: answers without a save, and the service reload *)

\* http.Error(w, ..., http.StatusBadRequest)
BadRequest ==
    /\ pc = "BadRequest"
    /\ Finish("bad request", 400)
    /\ UNCHANGED <<Disk, now, req, hist, served, beside>>

\* Mutant: a failed reload is answered with an error
ServiceReload_Fatal ==
    /\ pc = "Reload"
    /\ \E failed \in BOOLEAN :
          /\ pc' = "done"
          /\ result' = [op |-> req.op, err |-> IF failed THEN "reload" ELSE "",
                        status |-> IF failed THEN 500 ELSE 200,
                        reloads |-> result.reloads + 1,
                        reloadFailed |-> failed]
    /\ UNCHANGED <<Disk, now, req, hist, served, beside>>

\* serviceManager.Reload() after a successful save: its error is logged and
\* the handler answers 200 either way
ServiceReload ==
    /\ pc = "Reload"
    /\ \E failed \in BOOLEAN :
          /\ pc' = "done"
          /\ result' = [op |-> req.op, err |-> "", status |-> 200,
                        reloads |-> result.reloads + 1,
                        reloadFailed |-> failed]
    /\ UNCHANGED <<Disk, now, req, hist, served, beside>>

----------------------------------------------------------------------------
(* Manager.RenameOutbound and Server.handleOutboundRename *)

Renamed(tag, old, new) == IF tag = old THEN new ELSE tag

\* The configuration RenameOutbound(oldTag, newTag) hands to SaveConfig.
\* Outbound tags and group member lists are rewritten; rule outbound fields
\* and the final target are rewritten when Route and Route.Rules are not nil.
RenameOutbound(config, old, new) ==
    LET inRoute == config.route /\ ~config.rulesNil
    IN  [config EXCEPT
           !.outbounds =
              [i \in DOMAIN @ |->
                 [@[i] EXCEPT
                    !.tag = Renamed(@, old, new),
                    !.outbounds =
                       [j \in DOMAIN @ |-> Renamed(@[j], old, new)]]],
           !.rules =
              IF inRoute
              THEN [i \in DOMAIN @ |->
                      [@[i] EXCEPT !.outbound = Renamed(@, old, new)]]
              ELSE @,
           !.final = IF inRoute THEN Renamed(@, old, new) ELSE @]

\* handleOutboundRename: old_tag and new_tag are required
handleOutboundRename(old, new) ==
    LET l == LoadConfig
        r == [NoReq EXCEPT !.op = "rename", !.old = old, !.new = new,
                           !.config = RenameOutbound(l.config, old, new)]
    IN  /\ Begin(r, IF old = "" \/ new = "" THEN "BadRequest"
                    ELSE IF l.err # "" THEN "LoadFailed"
                    ELSE "BackupConfig")
        /\ UNCHANGED <<Disk, now>>

----------------------------------------------------------------------------
(* Server.handleRuleReorder and Server.handleOutboundReorder *)

\* append(s, items...) where s is the first base elements of the backing
\* array arr and the capacity suffices: the items are written in place
AppendInPlace(arr, base, items) ==
    [i \in 1..Max(Len(arr), base + Len(items)) |->
        IF i <= base THEN arr[i]
        ELSE IF i <= base + Len(items) THEN items[i - base]
        ELSE arr[i]]

\* Mutant: the moved rule is read after the removal has shifted the array
ReorderRules_ReadsAfterRemoval(rules, from, to) ==
    LET n == Len(rules)
        arr == AppendInPlace(rules, from, Slice(rules, from + 1, n))
        rest == SubSeq(arr, 1, n - 1)
        rule == arr[from + 1]
        t == IF to > from THEN to - 1 ELSE to
    IN  Slice(rest, 0, t) \o <<rule>> \o Slice(rest, t, n - 1)

\* handleRuleReorder: the rule at fromIndex is removed, toIndex is lowered
\* by one when it is above fromIndex, and the rule is inserted there
ReorderRules(rules, from, to) ==
    LET n == Len(rules)
        rule == rules[from + 1]
        arr == AppendInPlace(rules, from, Slice(rules, from + 1, n))
        rest == SubSeq(arr, 1, n - 1)
        t == IF to > from THEN to - 1 ELSE to
    IN  Slice(rest, 0, t) \o <<rule>> \o Slice(rest, t, n - 1)

\* handleOutboundReorder: the same, the insertion written into the backing
\* array of the list
ReorderOutbounds(outbounds, from, to) ==
    LET n == Len(outbounds)
        item == outbounds[from + 1]
        arr == AppendInPlace(outbounds, from, Slice(outbounds, from + 1, n))
        rest == SubSeq(arr, 1, n - 1)
        t == IF to > from THEN to - 1 ELSE to
        inner == <<item>> \o Slice(rest, t, n - 1)
        arr2 == AppendInPlace(arr, t, inner)
    IN  SubSeq(arr2, 1, t + Len(inner))

\* index < 0 || index >= len(list) is answered with 400
InRange(i, list) == i >= 0 /\ i < Len(list)

\* The index values a request carries: below, in and above the range of a
\* list of MaxList entries, and text that is not a number
ListIndexes == {FormInt(i) : i \in -1..MaxList} \cup {FormText}

\* The same for the short lists of the handler documents
FormIndexes == {FormInt(i) : i \in -1..1} \cup {FormText}

handleRuleReorder(fromStr, toStr) ==
    LET from == Atoi(fromStr).n
        to == Atoi(toStr).n
        valid == ~Atoi(fromStr).err /\ ~Atoi(toStr).err
        g == GetRules
        ok == valid /\ InRange(from, g.rules) /\ InRange(to, g.rules)
        rules == IF ok THEN ReorderRules(g.rules, from, to) ELSE <<>>
        r == [NoReq EXCEPT !.op = "ruleReorder", !.from = from,
                           !.fromStr = fromStr, !.toStr = toStr, !.to = to,
                           !.rules = rules,
                           !.config = UpdateRulesConfig(rules)]
    IN  /\ Begin(r, IF ~valid THEN "BadRequest"
                    ELSE IF g.err # "" THEN "LoadFailed"
                    ELSE IF ~ok THEN "BadRequest"
                    ELSE "BackupConfig")
        /\ UNCHANGED <<Disk, now>>

handleOutboundReorder(fromStr, toStr) ==
    LET from == Atoi(fromStr).n
        to == Atoi(toStr).n
        valid == ~Atoi(fromStr).err /\ ~Atoi(toStr).err
        g == GetOutbounds
        ok == valid /\ InRange(from, g.outbounds) /\ InRange(to, g.outbounds)
        obs == IF ok THEN ReorderOutbounds(g.outbounds, from, to) ELSE <<>>
        r == [NoReq EXCEPT !.op = "outboundReorder", !.from = from,
                           !.fromStr = fromStr, !.toStr = toStr,
                           !.to = to,
                           !.config = UpdateOutboundsConfig(obs)]
    IN  /\ Begin(r, IF ~valid THEN "BadRequest"
                    ELSE IF g.err # "" THEN "LoadFailed"
                    ELSE IF ~ok THEN "BadRequest"
                    ELSE "BackupConfig")
        /\ UNCHANGED <<Disk, now>>

----------------------------------------------------------------------------
(* Server.handleOutboundCreate, handleOutboundUpdate, handleOutboundDelete *)

GroupTypes == {"selector", "urltest"}

\* validateOutbound: "" when the outbound is accepted.  Type and tag are
\* required, and a selector or urltest needs a member.
validateOutbound(ob) ==
    IF ob.type = "" THEN "outbound type is required"
    ELSE IF ob.tag = "" THEN "outbound tag is required"
    ELSE IF ob.type \in GroupTypes /\ ob.outbounds = <<>>
    THEN "at least one outbound is required"
    ELSE ""

\* The index of the first outbound with the tag, -1 when there is none
IndexOfTag(outbounds, tag) ==
    LET hits == {i \in DOMAIN outbounds : outbounds[i].tag = tag}
    IN  IF hits = {} THEN -1
        ELSE (CHOOSE i \in hits : \A j \in hits : i <= j) - 1

\* handleOutboundCreate: the new outbound is appended
CreatedOutbounds(outbounds, ob) == Append(outbounds, ob)

handleOutboundCreate(ob) ==
    LET g == GetOutbounds
        r == [NoReq EXCEPT !.op = "outboundCreate", !.new = ob.tag,
                           !.config = UpdateOutboundsConfig(
                                         CreatedOutbounds(g.outbounds, ob))]
    IN  /\ Begin(r, IF validateOutbound(ob) # "" THEN "BadRequest"
                    ELSE IF g.err # "" THEN "LoadFailed"
                    ELSE "BackupConfig")
        /\ UNCHANGED <<Disk, now>>

\* handleOutboundUpdate: the outbound at updateIndex is replaced; when the
\* tag changed, the members and the default of every selector and urltest
\* in the list are rewritten
UpdatedOutbounds(outbounds, originalTag, updated) ==
    LET placed == [outbounds EXCEPT
                     ![IndexOfTag(outbounds, originalTag) + 1] = updated]
        newTag == updated.tag
    IN  IF newTag # "" /\ newTag # originalTag
        THEN [i \in DOMAIN placed |->
                IF placed[i].type \in GroupTypes
                THEN [placed[i] EXCEPT
                        !.outbounds =
                           [j \in DOMAIN @ |-> Renamed(@[j], originalTag, newTag)],
                        !.default = Renamed(@, originalTag, newTag)]
                ELSE placed[i]]
        ELSE placed

handleOutboundUpdate(originalTag, updated) ==
    LET g == GetOutbounds
        found == IndexOfTag(g.outbounds, originalTag) # -1
        obs == IF found
               THEN UpdatedOutbounds(g.outbounds, originalTag, updated)
               ELSE <<>>
        r == [NoReq EXCEPT !.op = "outboundUpdate", !.old = originalTag,
                           !.new = updated.tag,
                           !.config = UpdateOutboundsConfig(obs)]
    IN  /\ Begin(r, IF originalTag = "" \/ validateOutbound(updated) # ""
                    THEN "BadRequest"
                    ELSE IF g.err # "" THEN "LoadFailed"
                    ELSE IF ~found THEN "BadRequest"
                    ELSE "BackupConfig")
        /\ UNCHANGED <<Disk, now>>

\* Mutant: a selector keeps the deleted tag as its default
DeletedOutbounds_KeepsDefault(outbounds, tag) ==
    LET cleaned ==
          [i \in DOMAIN outbounds |->
             LET o == outbounds[i]
             IN  IF o.type \in GroupTypes
                 THEN [o EXCEPT
                         !.outbounds = SelectSeq(@, LAMBDA m : m # tag)]
                 ELSE o]
        deleteIndex == IndexOfTag(cleaned, tag)
    IN  Slice(cleaned, 0, deleteIndex)
          \o Slice(cleaned, deleteIndex + 1, Len(cleaned))

\* handleOutboundDelete: the tag is taken out of every group's members, a
\* selector whose default it was gets its first remaining member as default
\* (or none), and the first outbound with the tag is removed
DeletedOutbounds(outbounds, tag) ==
    LET cleaned ==
          [i \in DOMAIN outbounds |->
             LET o == outbounds[i]
                 members == SelectSeq(o.outbounds, LAMBDA m : m # tag)
             IN  IF o.type \in GroupTypes
                 THEN [o EXCEPT
                         !.outbounds = members,
                         !.default =
                            IF o.type = "selector" /\ @ = tag
                            THEN IF members # <<>> THEN members[1] ELSE ""
                            ELSE @]
                 ELSE o]
        deleteIndex == IndexOfTag(cleaned, tag)
    IN  Slice(cleaned, 0, deleteIndex)
          \o Slice(cleaned, deleteIndex + 1, Len(cleaned))

handleOutboundDelete(tag) ==
    LET g == GetOutbounds
        found == IndexOfTag(g.outbounds, tag) # -1
        obs == IF found THEN DeletedOutbounds(g.outbounds, tag) ELSE <<>>
        r == [NoReq EXCEPT !.op = "outboundDelete", !.old = tag,
                           !.config = UpdateOutboundsConfig(obs)]
    IN  /\ Begin(r, IF tag = "" THEN "BadRequest"
                    ELSE IF g.err # "" THEN "LoadFailed"
                    ELSE IF ~found THEN "BadRequest"
                    ELSE "BackupConfig")
        /\ UNCHANGED <<Disk, now>>

\* SaveConfig(LoadConfig()): the loaded configuration is saved back
SaveLoaded ==
    /\ Begin([NoReq EXCEPT !.op = "save", !.config = LoadConfig.config],
             IF LoadConfig.err # "" THEN "LoadFailed" ELSE "BackupConfig")
    /\ UNCHANGED <<Disk, now>>

----------------------------------------------------------------------------
(* The environment *)

\* The request has returned; the server is idle again
Return ==
    /\ pc = "done"
    /\ pc' = "idle"
    /\ req' = NoReq
    /\ result' = NoResult
    /\ hist' = NoHist
    /\ UNCHANGED <<Disk, now, served, beside>>

\* The clock advances
Tick ==
    /\ now < MaxTime
    /\ now' = now + 1
    /\ UNCHANGED <<Disk, pc, req, result, hist, served, beside>>

\* The operator edits the configuration file outside the server
ExternalEdit(data) ==
    /\ pc = "idle"
    /\ served < MaxOps
    /\ served' = served + 1
    /\ configExists' = TRUE
    /\ configData' = data
    /\ UNCHANGED <<backups, metas, mtimes, now, pc, req, result, hist, beside>>

\* The operator removes the configuration file
ExternalRemove ==
    /\ pc = "idle"
    /\ served < MaxOps
    /\ configExists
    /\ served' = served + 1
    /\ configExists' = FALSE
    /\ configData' = NoData
    /\ UNCHANGED <<backups, metas, mtimes, now, pc, req, result, hist, beside>>

----------------------------------------------------------------------------
(* The Config Store under manager calls *)

RuleA == Rule(1, "direct")
RuleB == Rule(2, "a")

DocA == RouteDoc(<<>>, TRUE, <<RuleA>>, "direct", FALSE, FALSE)
DocB == RouteDoc(<<Outbound("a", "direct", <<>>, "")>>, FALSE, <<>>, "a",
                 TRUE, FALSE)

\* What the configuration file holds at first, and what an edit leaves
StoreDocs == {DocA, Garbage}

EditedDocs == {DocB, Garbage}

StoreRules == {<<>>, <<RuleB, RuleA>>}

StoreNames == {<<"/", "m">>, <<"/">>}

\* A backup file the directory may hold when the manager is constructed
OldFile == [name |-> <<"old">>, stamp |-> 0]

\* NewManager: the backup directory exists; it is empty, or holds an earlier
\* backup, or a file copied into it by hand (no metadata sidecar)
InitBackupDir ==
    \/ backups = EmptyDir /\ metas = EmptyDir /\ mtimes = EmptyDir
    \/ /\ backups = WriteFile(EmptyDir, OldFile, DocB)
       /\ metas = WriteFile(EmptyDir, OldFile,
                            Metadata(<<"old">>, "manual", 0, OldFile))
       /\ mtimes = WriteFile(EmptyDir, OldFile, 0)
    \/ /\ backups = WriteFile(EmptyDir, OldFile, Garbage)
       /\ metas = EmptyDir
       /\ mtimes = WriteFile(EmptyDir, OldFile, 0)

InitIdle ==
    /\ now = 0
    /\ pc = "idle"
    /\ req = NoReq
    /\ result = NoResult
    /\ hist = NoHist
    /\ relay = NoRelay
    /\ watcher = NoWatcher
    /\ inflight = NoInflight
    /\ clash = NoClash
    /\ browser = NoBrowser

Init ==
    /\ InitIdle
    /\ served = 0
    /\ InitBackupDir
    /\ \/ configExists = FALSE /\ configData = NoData
       \/ configExists = TRUE /\ configData \in StoreDocs

\* The configurations a caller hands to SaveConfig
StoreConfigs == {Unmarshal(d) : d \in {DocA, DocB}}

Next ==
    \/ \E c \in StoreConfigs : SaveConfig(c)
    \/ \E r \in StoreRules : UpdateRules(r)
    \/ \E n \in StoreNames : CreateBackupWithName(n, "manual")
    \/ \E f \in DOMAIN backups \cup {MissingFile} : RestoreBackup(f)
    \/ BackupConfig
    \/ CreateBackupStep
    \/ WriteConfigOk
    \/ WriteConfigFails
    \/ LoadFailed
    \/ LoadConfigCall
    \/ LoadConfigReadFails
    \/ LoadConfigReads
    \/ RestoreRead
    \/ RestoreWriteOk
    \/ RestoreWriteFails
    \/ Return
    \/ Tick
    \/ \E d \in EditedDocs : ExternalEdit(d)
    \/ ExternalRemove

Spec == Init /\ [][Next]_vars

----------------------------------------------------------------------------
(* Claims about the Config Store, checked under Spec *)

\* Requests that end in SaveConfig
SaveOps == {"save", "updateRules", "updateOutbounds"} \cup HandlerOps

HeldByBackup(data) == \E f \in DOMAIN backups : backups[f] = data

ConfigUnchanged == configExists = hist.exists /\ configData = hist.data

BackupDirUnchanged == backups = hist.backups /\ metas = hist.metas

\* C1: while SaveConfig is overwriting, or has overwritten, an existing
\* configuration file, some backup file holds the content the file had
\* before the save; and when the backup step fails SaveConfig returns an
\* error with the configuration file unchanged.
C1_BackupBeforeOverwrite ==
    /\ (req.op \in SaveOps /\ hist.exists
            /\ (pc = "WriteConfig" \/ req.wroteConfig))
         => HeldByBackup(hist.data)
    /\ (req.op \in SaveOps /\ pc \in {"BackupConfig", "CreateBackup"})
         => ConfigUnchanged
    /\ (req.op \in SaveOps /\ pc = "done" /\ result.err = "backup")
         => ConfigUnchanged

C1_Witness ==
    /\ req.op = "save" /\ pc = "done" /\ result.err = ""
    /\ hist.exists /\ req.wroteConfig /\ configData # hist.data
    /\ HeldByBackup(hist.data)

\* C2: RestoreBackup of a backup that is missing or is not parseable JSON
\* returns an error, leaves the configuration file unchanged and creates no
\* backup file.
C2_RestoreInvalidKeepsLive ==
    (req.op = "restore"
        /\ (req.file \notin DOMAIN hist.backups
            \/ ~hist.backups[req.file].json))
      => /\ ConfigUnchanged
         /\ BackupDirUnchanged
         /\ pc \in {"RestoreRead", "done"}
         /\ pc = "done" => result.err # ""

C2_Witness ==
    /\ req.op = "restore" /\ pc = "done" /\ hist.exists
    /\ req.file \in DOMAIN hist.backups
    /\ ~hist.backups[req.file].json
    /\ hist.data.json

\* A backup CreateBackupWithName has written completely
Complete(f) ==
    /\ f \in DOMAIN backups /\ backups[f].json
    /\ f \in DOMAIN metas /\ metas[f].json

\* C7: a backup file, once written by CreateBackupWithName, is immutable:
\* no step of a later save of a parseable configuration file that meets no
\* input/output error changes its content or its metadata sidecar.
C7_BackupsImmutable ==
    [][(req.op \in SaveOps /\ configData.json /\ result'.err = "")
        => \A f \in DOMAIN backups :
              Complete(f) => /\ f \in DOMAIN backups'
                             /\ backups'[f] = backups[f]
                             /\ f \in DOMAIN metas'
                             /\ metas'[f] = metas[f]]_vars

\* C8: after RestoreBackup succeeds the configuration file holds exactly
\* the bytes the named backup held when the call began and a backup holds
\* what the configuration file held before; the backup is validated before
\* the current file is backed up, and that before the file is overwritten.
C8_RestoreExact ==
    /\ (req.op = "restore" /\ pc = "done" /\ result.err = "")
         => /\ configExists
            /\ configData = hist.backups[req.file]
            /\ hist.exists => HeldByBackup(hist.data)
    /\ (req.op = "restore" /\ pc \in {"BackupConfig", "CreateBackup"})
         => req.data.json /\ ConfigUnchanged /\ BackupDirUnchanged
    /\ (req.op = "restore" /\ pc = "RestoreWrite")
         => /\ req.data.json /\ ConfigUnchanged
            /\ hist.exists => HeldByBackup(hist.data)

C8_Witness ==
    /\ req.op = "restore" /\ pc = "done" /\ result.err = ""
    /\ hist.exists /\ configData # hist.data
    /\ configData.extra

\* C9: CreateBackupWithName without a configuration file returns no error
\* and changes no file: the backup directory is as before and no
\* configuration file is created.
C9_CreateBackupNoConfigNoop ==
    (req.op = "create" /\ ~hist.exists)
      => /\ ~configExists
         /\ BackupDirUnchanged
         /\ pc = "done" => result.err = ""

C9_Witness ==
    /\ req.op = "create" /\ ~hist.exists /\ pc = "done"
    /\ DOMAIN hist.backups # {}

\* C10: starting without a configuration file, UpdateRules(R) fails only
\* when the operating system refuses the write, GetRules then returns R,
\* and no backup file is created; a successful save writes a backup exactly
\* when the configuration file existed before it.
C10_FirstSave ==
    /\ (req.op = "updateRules" /\ ~hist.exists)
         => /\ BackupDirUnchanged
            /\ pc = "done" => result.err \in {"", "write"}
            /\ (pc = "done" /\ result.err = "")
                 => GetRules.err = "" /\ GetRules.rules = req.rules
    /\ (req.op \in SaveOps /\ pc = "done" /\ result.err = "")
         => (req.wroteBackup <=> hist.exists)

C10_Witness ==
    /\ req.op = "updateRules" /\ ~hist.exists /\ pc = "done"
    /\ result.err = "" /\ Len(req.rules) = 2
    /\ GetRules.rules = req.rules

\* C11: LoadConfig without a configuration file returns the default
\* configuration (no rules, final target "direct") and no error, and changes
\* no file: the configuration file is still absent and the backup directory
\* is as before.  When the file exists and cannot be read or is not JSON,
\* LoadConfig returns an error; it returns no error only with what the file
\* holds.
C11_LoadDefault ==
    req.op = "load"
      => /\ ConfigUnchanged
         /\ BackupDirUnchanged
         /\ (pc = "done" /\ ~hist.exists)
              => /\ result.err = ""
                 /\ req.config.route /\ ~req.config.rulesNil
                 /\ req.config.rules = <<>>
                 /\ req.config.final = "direct"
                 /\ req.config.outbounds = <<>>
         /\ (pc = "done" /\ hist.exists /\ ~hist.data.json)
              => result.err # ""
         /\ (pc = "done" /\ hist.exists /\ result.err = "")
              => hist.data.json /\ req.config = Unmarshal(hist.data)

C11_Witness ==
    /\ req.op = "load" /\ pc = "done" /\ ~hist.exists
    /\ result.err = "" /\ req.config.final = "direct"
    /\ DOMAIN backups # {}

----------------------------------------------------------------------------
(* One handler request on a bounded set of configuration documents *)

\* The steps of SaveConfig on behalf of a handler
SaveSteps ==
    \/ BackupConfig
    \/ CreateBackupReadFails
    \/ CreateBackupWriteFails
    \/ CreateBackupMetaFails
    \/ CreateBackupWritesFile
    \/ WriteConfigOk
    \/ WriteConfigFails

\* The server is idle, the backup directory empty, and one request is served
InitOneRequest ==
    /\ InitIdle
    /\ served = MaxOps - 1
    /\ backups = EmptyDir
    /\ metas = EmptyDir
    /\ mtimes = EmptyDir
    /\ configExists = TRUE

GroupTags == {"a", "b"}

\* Documents with an outbound, a selector over GroupTags with or without a
\* default, and a route section with or without a rule list
RenameDocs ==
    {RouteDoc(<<Outbound(t, "direct", <<>>, ""),
                Outbound("g", "selector", m, d)>>,
              hr, rs, fin, FALSE, FALSE) :
        t \in GroupTags,
        m \in SeqsUpTo(GroupTags, MaxMembers) \ {<<>>},
        d \in GroupTags \cup {""},
        hr \in BOOLEAN,
        rs \in {<<>>} \cup {<<Rule(1, o)>> : o \in GroupTags},
        fin \in GroupTags \cup {""}}

InitRename ==
    /\ InitOneRequest
    /\ configData \in {d \in RenameDocs :
                          /\ d.outbounds[2].default \in
                                Range(d.outbounds[2].outbounds) \cup {""}
                          /\ ~d.hasRules => d.rules = <<>>}

NextRename ==
    \/ \E old, new \in Tags \cup {""} : handleOutboundRename(old, new)
    \/ BadRequest
    \/ SaveSteps
    \/ ServiceReload
    \/ Return
    \/ Tick

SpecRename == InitRename /\ [][NextRename]_vars

\* The tags a document refers to: outbound tags, group members, selector
\* defaults, rule outbound fields and the route's final target
Occurs(tag, d) ==
    \/ \E i \in DOMAIN d.outbounds :
          \/ d.outbounds[i].tag = tag
          \/ tag \in Range(d.outbounds[i].outbounds)
          \/ d.outbounds[i].default = tag
    \/ \E i \in DOMAIN d.rules : d.rules[i].outbound = tag
    \/ d.final = tag

\* Every place of d that held old holds new in e
Rewritten(d, e, old, new) ==
    /\ Len(e.outbounds) = Len(d.outbounds)
    /\ \A i \in DOMAIN d.outbounds :
          /\ d.outbounds[i].tag = old => e.outbounds[i].tag = new
          /\ d.outbounds[i].default = old => e.outbounds[i].default = new
          /\ Len(e.outbounds[i].outbounds) = Len(d.outbounds[i].outbounds)
          /\ \A j \in DOMAIN d.outbounds[i].outbounds :
                d.outbounds[i].outbounds[j] = old
                   => e.outbounds[i].outbounds[j] = new
    /\ Len(e.rules) = Len(d.rules)
    /\ \A i \in DOMAIN d.rules :
          d.rules[i].outbound = old => e.rules[i].outbound = new
    /\ d.final = old => e.final = new

\* C3: after a successful rename of old to a different tag new, the saved
\* document holds old in no outbound tag, member list, selector default,
\* rule outbound field or final target, and each former occurrence holds new.
C3_RenameRewritesAll ==
    (req.op = "rename" /\ pc = "done" /\ result.status = 200
        /\ req.old # req.new)
      => /\ ~Occurs(req.old, configData)
         /\ Rewritten(hist.data, configData, req.old, req.new)

----------------------------------------------------------------------------
(* Reordering *)

Entries == {1, 2, 3}

Lists == SeqsUpTo(Entries, MaxList) \ {<<>>}

RuleOf(e) == Rule(e, "direct")

OutboundOf(e) == Outbound(ToString(e), "direct", <<>>, "")

InitReorder ==
    /\ InitOneRequest
    /\ \E l \in Lists :
          \/ configData = RouteDoc(<<>>, TRUE, [i \in DOMAIN l |-> RuleOf(l[i])],
                                   "direct", FALSE, FALSE)
          \/ configData = RouteDoc([i \in DOMAIN l |-> OutboundOf(l[i])],
                                   FALSE, <<>>, "direct", FALSE, FALSE)

NextReorder ==
    \/ \E from, to \in ListIndexes : handleRuleReorder(from, to)
    \/ \E from, to \in ListIndexes : handleOutboundReorder(from, to)
    \/ BadRequest
    \/ SaveSteps
    \/ ServiceReload
    \/ Return
    \/ Tick

SpecReorder == InitReorder /\ [][NextReorder]_vars

\* The list a reorder request works on, before and after
ListBefore ==
    IF req.op = "ruleReorder" THEN hist.data.rules ELSE hist.data.outbounds

ListAfter ==
    IF req.op = "ruleReorder" THEN configData.rules ELSE configData.outbounds

Count(x, list) == Cardinality({i \in DOMAIN list : list[i] = x})

Reordered ==
    /\ req.op \in {"ruleReorder", "outboundReorder"}
    /\ pc = "done"
    /\ result.status = 200

\* C4: the list a reorder saves is a permutation of the list it loaded:
\* the same length and every entry as many times as before.
C4_ReorderPermutes ==
    Reordered
      => /\ Len(ListAfter) = Len(ListBefore)
         /\ \A x \in Range(ListBefore) \cup Range(ListAfter) :
               Count(x, ListAfter) = Count(x, ListBefore)

C4_Witness ==
    /\ Reordered
    /\ req.op = "outboundReorder"
    /\ Len(ListBefore) = 3
    /\ ListAfter # ListBefore
    /\ Cardinality(Range(ListBefore)) = 3

Without(list, i) == Slice(list, 0, i) \o Slice(list, i + 1, Len(list))

\* C5: after a reorder the entry that was at index from is at index to and
\* the other entries keep their relative order.
C5_MovedToTarget ==
    Reordered
      => /\ Len(ListAfter) = Len(ListBefore)
         /\ ListAfter[req.to + 1] = ListBefore[req.from + 1]
         /\ Without(ListAfter, req.to) = Without(ListBefore, req.from)

----------------------------------------------------------------------------
(* Round trip *)

RoundTripDocs ==
    {[json |-> TRUE, extra |-> x, outbounds |-> obs, hasRoute |-> TRUE,
      hasRules |-> hr, rules |-> rs, final |-> fin, routeExtra |-> rx,
      ruleAction |-> <<>>] :
        x \in BOOLEAN, rx \in BOOLEAN, hr \in BOOLEAN,
        obs \in {<<>>, <<OutboundOf(1)>>},
        rs \in {<<>>, <<RuleOf(1)>>, <<RuleOf(1), RuleOf(2)>>},
        fin \in {"", "direct"}}
    \cup {[EmptyDoc EXCEPT !.extra = x] : x \in BOOLEAN}

InitRoundTrip ==
    /\ InitOneRequest
    /\ configData \in {d \in RoundTripDocs : ~d.hasRules => d.rules = <<>>}

NextRoundTrip ==
    \/ SaveLoaded
    \/ SaveSteps
    \/ Return
    \/ Tick

SpecRoundTrip == InitRoundTrip /\ [][NextRoundTrip]_vars

\* C6: saving the loaded configuration leaves the file with the content it
\* had, up to whitespace and key order.
C6_RoundTrip ==
    (req.op = "save" /\ pc = "done" /\ result.err = "")
      => configExists /\ configData = hist.data

----------------------------------------------------------------------------
(* Listing a backup directory *)

ListFiles == {[name |-> <<"x">>, stamp |-> 0], [name |-> <<"y">>, stamp |-> 1]}

\* A sidecar: written by CreateBackupWithName at second t, not parseable, or
\* parseable without a config_file
Sidecar(f, t, bad, empty) ==
    IF bad THEN BadMetadata
    ELSE IF empty THEN [BadMetadata EXCEPT !.json = TRUE]
    ELSE Metadata(<<"m">>, "manual", t, f)

\* The backup directory holds any of ListFiles, each with or without a
\* sidecar, and possibly sidecars whose backup file is gone; two requests
\* are served
InitList ==
    /\ InitIdle
    /\ served = MaxOps - 2
    /\ configExists = TRUE
    /\ configData = DocA
    /\ \E fs \in SUBSET ListFiles, ms \in SUBSET ListFiles :
          /\ backups = [f \in fs |-> DocB]
          /\ mtimes \in [fs -> 0..MaxTime]
          /\ \E ts \in [ms -> 0..MaxTime], bad \in SUBSET ms, empty \in SUBSET ms :
                /\ \A f \in bad \cup empty : ts[f] = 0
                /\ bad \cap empty = {}
                /\ metas = [f \in ms |->
                               Sidecar(f, ts[f], f \in bad, f \in empty)]

NextList ==
    \/ ListBackupsCall
    \/ ListBackupsReadDirFails
    \/ ListBackupsReturns
    \/ \E n \in StoreNames : CreateBackupWithName(n, "manual")
    \/ CreateBackupReadFails
    \/ CreateBackupWriteFails
    \/ CreateBackupMetaFails
    \/ CreateBackupWritesFile
    \/ Return
    \/ Tick

SpecList == InitList /\ [][NextList]_vars

Listed == req.op = "list" /\ pc = "done" /\ result.err = ""

\* C12: the list ListBackups returns has exactly one record for every backup
\* file and none for a sidecar, no record is followed by one with a later
\* timestamp, and a file without a usable sidecar has a record whose name is
\* the file name and whose timestamp is the file's modification time.
C12_ListBackups ==
    Listed
      => /\ Len(req.list) = Cardinality(DOMAIN backups)
         /\ {req.list[i].filename : i \in DOMAIN req.list} = DOMAIN backups
         /\ \A i, j \in DOMAIN req.list :
               i < j => req.list[i].metadata.timestamp
                          >= req.list[j].metadata.timestamp
         /\ \A i \in DOMAIN req.list :
               LET f == req.list[i].filename
               IN  IF UsableMetadata(f)
                   THEN req.list[i].metadata = BackupMetadata(metas[f])
                   ELSE /\ req.list[i].metadata.name = FilenameString(f)
                        /\ req.list[i].metadata.timestamp = mtimes[f]

C12_Witness ==
    /\ Listed
    /\ Len(req.list) = 2
    /\ DOMAIN metas \ DOMAIN backups # {}
    /\ UsableMetadata(req.list[1].filename)
    /\ ~UsableMetadata(req.list[2].filename)
    /\ req.list[1].metadata.timestamp > req.list[2].metadata.timestamp

----------------------------------------------------------------------------
(* The outbound handlers on a configuration with groups, rules and a final
   target *)

DirectA == Outbound("a", "direct", <<>>, "")
DirectB == Outbound("b", "direct", <<>>, "")

\* Configuration files whose outbound tags are pairwise distinct
OutboundDocs ==
    {RouteDoc(<<DirectA, DirectB, Outbound("g", "selector", <<"a", "b">>, "a")>>,
              TRUE, <<Rule(1, "a"), Rule(2, "b")>>, "a", FALSE, FALSE),
     RouteDoc(<<Outbound("g", "urltest", <<"a">>, ""), DirectA>>,
              FALSE, <<>>, "a", FALSE, FALSE)}

\* Outbounds buildOutboundFromForm makes from a submitted form
OutboundForms ==
    {Outbound(t, "direct", <<>>, "") : t \in {"a", "c", ""}}
      \cup {Outbound("c", "", <<>>, ""),
            Outbound("g", "selector", <<>>, ""),
            Outbound("g", "selector", <<"b">>, "b"),
            Outbound("h", "urltest", <<"a">>, "")}

FormTags == {"a", "g", "z", ""}

InitOutbounds ==
    /\ InitIdle
    /\ served = 0
    /\ backups = EmptyDir
    /\ metas = EmptyDir
    /\ mtimes = EmptyDir
    /\ configExists = TRUE
    /\ configData \in OutboundDocs

NextOutbounds ==
    \/ \E ob \in OutboundForms : handleOutboundCreate(ob)
    \/ \E t \in FormTags, ob \in OutboundForms : handleOutboundUpdate(t, ob)
    \/ \E t \in FormTags : handleOutboundDelete(t)
    \/ \E old, new \in {"a", "c", ""} : handleOutboundRename(old, new)
    \/ \E from, to \in ListIndexes : handleOutboundReorder(from, to)
    \/ BadRequest
    \/ LoadFailed
    \/ SaveSteps
    \/ ServiceReload
    \/ Return
    \/ Tick

SpecOutbounds == InitOutbounds /\ [][NextOutbounds]_vars

DistinctTags(outbounds) ==
    \A i, j \in DOMAIN outbounds :
       outbounds[i].tag = outbounds[j].tag => i = j

\* C13: the outbound tags of the saved configuration are pairwise distinct
\* after any sequence of outbound create, update, rename, reorder and delete
\* requests on a configuration whose tags were pairwise distinct.
C13_TagsUnique ==
    configData.json => DistinctTags(configData.outbounds)

\* The references a document holds to a tag: group members, group defaults,
\* rule outbound fields and the route's final target
RefersTo(tag, d) ==
    \/ \E i \in DOMAIN d.outbounds :
          \/ tag \in Range(d.outbounds[i].outbounds)
          \/ d.outbounds[i].default = tag
    \/ \E i \in DOMAIN d.rules : d.rules[i].outbound = tag
    \/ d.final = tag

\* C14: after handleOutboundUpdate has changed an outbound's tag from
\* original_tag to a different tag, the saved document refers to the original
\* tag nowhere: every rule and the final target that named it name the new
\* tag, and no member list or default holds it.
C14_UpdateCascades ==
    (req.op = "outboundUpdate" /\ pc = "done" /\ result.status = 200
        /\ req.new # req.old)
      => /\ ~RefersTo(req.old, configData)
         /\ Len(configData.rules) = Len(hist.data.rules)
         /\ \A i \in DOMAIN hist.data.rules :
               hist.data.rules[i].outbound = req.old
                  => configData.rules[i].outbound = req.new
         /\ hist.data.final = req.old => configData.final = req.new

----------------------------------------------------------------------------
(* Server.handleProxyGroupDelayTest and Client.TestProxyDelay *)

\* What the upstream API answers to a delay test: a latency, or a failure
\* (a timeout, a status other than 200)
DelayAnswers ==
    {[ok |-> TRUE, delay |-> d, error |-> ""] : d \in {0, 120}}
      \cup {[ok |-> FALSE, delay |-> 0, error |-> e] :
               e \in {"timeout", "status 404"}}

\* The entry of the results for a member and the answer to its test
DelayResult(proxyName, answer) ==
    IF answer.ok
    THEN [name |-> proxyName, delay |-> answer.delay, error |-> "",
          timeout |-> FALSE]
    ELSE [name |-> proxyName, delay |-> 0, error |-> answer.error,
          timeout |-> answer.error = "timeout"]

\* The handler is called: without a configured client, or without a group
\* name, it answers 400
handleProxyGroupDelayTest(configured, group) ==
    /\ Begin([NoReq EXCEPT !.op = "delayTest", !.group = group],
             IF ~configured \/ group = "" THEN "BadRequest" ELSE "GetProxy")
    /\ UNCHANGED <<Disk, now>>

\* clashClient.GetProxy(groupName) fails: 500
GetProxyFails ==
    /\ pc = "GetProxy"
    /\ Finish("get proxy", 500)
    /\ UNCHANGED <<Disk, now, req, hist, served, beside>>

\* clashClient.GetProxy(groupName) returns the group with its members
GetProxy ==
    /\ pc = "GetProxy"
    /\ \E all \in SeqsUpTo(Tags, MaxGroup) :
          req' = [req EXCEPT !.members = all]
    /\ pc' = "TestProxyDelay"
    /\ UNCHANGED <<Disk, now, result, hist, served, beside>>

\* Mutant: the loop stops at the first member whose test fails
TestProxyDelay_StopsAtError ==
    /\ pc = "TestProxyDelay"
    /\ Len(req.results) < Len(req.members)
    /\ \E answer \in DelayAnswers :
          /\ req' = [req EXCEPT
                       !.answers = Append(@, answer),
                       !.results =
                          IF answer.ok
                          THEN Append(@, DelayResult(
                                  req.members[Len(req.results) + 1], answer))
                          ELSE @,
                       !.members =
                          IF answer.ok THEN @ ELSE SubSeq(@, 1, Len(req.results))]
    /\ UNCHANGED <<Disk, now, pc, result, hist, served, beside>>

\* One turn of the loop over proxy.All: the next member is tested and its
\* entry is appended, whatever the test returned
TestProxyDelay ==
    /\ pc = "TestProxyDelay"
    /\ Len(req.results) < Len(req.members)
    /\ \E answer \in DelayAnswers :
          req' = [req EXCEPT
                    !.answers = Append(@, answer),
                    !.results =
                       Append(@, DelayResult(
                                    req.members[Len(req.results) + 1], answer))]
    /\ UNCHANGED <<Disk, now, pc, result, hist, served, beside>>

\* The loop is over: the results are encoded into the response
DelayTestResponds ==
    /\ pc = "TestProxyDelay"
    /\ Len(req.results) = Len(req.members)
    /\ Finish("", 200)
    /\ UNCHANGED <<Disk, now, req, hist, served, beside>>

InitDelay ==
    /\ InitOneRequest
    /\ configData = DocA

NextDelay ==
    \/ \E configured \in BOOLEAN, group \in {"", "g"} :
          handleProxyGroupDelayTest(configured, group)
    \/ BadRequest
    \/ GetProxyFails
    \/ GetProxy
    \/ TestProxyDelay
    \/ DelayTestResponds
    \/ Return

SpecDelay == InitDelay /\ [][NextDelay]_vars

\* C15: once the group is fetched, the response has one entry per member of
\* the group, in member order; every member was tested; entry i holds the
\* latency measured for member i, or delay 0 and an error when its test
\* failed.
C15_OneResultPerMember ==
    /\ (req.op = "delayTest" /\ pc = "TestProxyDelay")
         => /\ Len(req.results) = Len(req.answers)
            /\ Len(req.results) <= Len(req.members)
    /\ (req.op = "delayTest" /\ pc = "done" /\ result.status = 200)
         => /\ Len(req.results) = Len(req.members)
            /\ Len(req.answers) = Len(req.members)
            /\ \A i \in DOMAIN req.members :
                  /\ req.results[i].name = req.members[i]
                  /\ IF req.answers[i].ok
                     THEN /\ req.results[i].delay = req.answers[i].delay
                          /\ req.results[i].error = ""
                     ELSE /\ req.results[i].delay = 0
                          /\ req.results[i].error # ""

C15_Witness ==
    /\ req.op = "delayTest" /\ pc = "done" /\ result.status = 200
    /\ Len(req.members) = 3
    /\ req.answers[1].ok /\ ~req.answers[2].ok /\ req.answers[3].ok
    /\ req.results[3].delay = 120

----------------------------------------------------------------------------
(* Server.handleConnectionsWebSocket: the relay between the browser client
   and the Clash API *)

\* The handler runs: the upgrade fails; or the client connection is made and
\* the URL is invalid or the dial fails (the deferred Close closes the client
\* connection); or both connections are open, the two goroutines are started
\* and the handler waits in its select
handleConnectionsWebSocket ==
    /\ relay.handler = "idle"
    /\ \/ relay' = [relay EXCEPT !.handler = "returned"]
       \/ relay' = [relay EXCEPT !.handler = "returned",
                                 !.clientConn = "closed"]
       \/ relay' = [relay EXCEPT !.handler = "select",
                                 !.clientConn = "open", !.clashConn = "open",
                                 !.up = "read", !.down = "read"]
    /\ UNCHANGED <<store, watcher, inflight, clash, browser>>

\* The Clash API sends a frame; its payload is a JSON object or is not
ClashSends ==
    /\ relay.clashPeer = "open"
    /\ relay.clashConn = "open"
    /\ relay.sentClash < MaxFrames
    /\ \E j \in BOOLEAN :
          relay' = [relay EXCEPT
                      !.sentClash = @ + 1,
                      !.fromClash = Append(@, [id |-> relay.sentClash + 1,
                                               json |-> j])]
    /\ UNCHANGED <<store, watcher, inflight, clash, browser>>

\* The browser sends a frame
ClientSends ==
    /\ relay.clientPeer = "open"
    /\ relay.clientConn = "open"
    /\ relay.sentClient < MaxFrames
    /\ relay' = [relay EXCEPT
                   !.sentClient = @ + 1,
                   !.fromClient = Append(@, [id |-> relay.sentClient + 1,
                                             json |-> TRUE])]
    /\ UNCHANGED <<store, watcher, inflight, clash, browser>>

\* The Clash API closes its side, or the connection to it breaks
ClashCloses ==
    /\ relay.clashConn = "open"
    /\ relay.clashPeer = "open"
    /\ relay' = [relay EXCEPT !.clashPeer = "closed"]
    /\ UNCHANGED <<store, watcher, inflight, clash, browser>>

\* The browser closes its side, or the connection to it breaks
ClientCloses ==
    /\ relay.clientConn = "open"
    /\ relay.clientPeer = "open"
    /\ relay' = [relay EXCEPT !.clientPeer = "closed"]
    /\ UNCHANGED <<store, watcher, inflight, clash, browser>>

\* clashConn.ReadMessage() returns: an error when the connection is closed
\* here, or closed there with nothing left to read; otherwise the next
\* frame, which is forwarded only when json.Unmarshal into a map accepts it
UpRead ==
    /\ relay.up = "read"
    /\ IF relay.clashConn = "closed"
          \/ (relay.fromClash = <<>> /\ relay.clashPeer = "closed")
       THEN relay' = [relay EXCEPT !.up = "send"]
       ELSE /\ relay.fromClash # <<>>
            /\ relay' = [relay EXCEPT
                           !.fromClash = Tail(@),
                           !.readClash = Append(@, Head(relay.fromClash)),
                           !.upMsg = Head(relay.fromClash),
                           !.up = IF Head(relay.fromClash).json
                                  THEN "write" ELSE "read"]
    /\ UNCHANGED <<store, watcher, inflight, clash, browser>>

\* clientConn.WriteMessage(websocket.TextMessage, message)
UpWrite ==
    /\ relay.up = "write"
    /\ IF relay.clientConn = "closed" \/ relay.clientPeer = "closed"
       THEN relay' = [relay EXCEPT !.up = "send"]
       ELSE relay' = [relay EXCEPT !.toClient = Append(@, relay.upMsg),
                                   !.up = "read"]
    /\ UNCHANGED <<store, watcher, inflight, clash, browser>>

\* errChan <- err
UpSend ==
    /\ relay.up = "send"
    /\ relay.errChan < ErrChanCap
    /\ relay' = [relay EXCEPT !.errChan = @ + 1, !.up = "exit"]
    /\ UNCHANGED <<store, watcher, inflight, clash, browser>>

\* The goroutine returns: the deferred close(done) runs
UpExit ==
    /\ relay.up = "exit"
    /\ relay' = [relay EXCEPT !.done = TRUE, !.up = "exited"]
    /\ UNCHANGED <<store, watcher, inflight, clash, browser>>

\* clientConn.ReadMessage() returns
DownRead ==
    /\ relay.down = "read"
    /\ IF relay.clientConn = "closed"
          \/ (relay.fromClient = <<>> /\ relay.clientPeer = "closed")
       THEN relay' = [relay EXCEPT !.down = "send"]
       ELSE /\ relay.fromClient # <<>>
            /\ relay' = [relay EXCEPT
                           !.fromClient = Tail(@),
                           !.readClient = Append(@, Head(relay.fromClient)),
                           !.downMsg = Head(relay.fromClient),
                           !.down = "write"]
    /\ UNCHANGED <<store, watcher, inflight, clash, browser>>

\* clashConn.WriteMessage(websocket.TextMessage, message)
DownWrite ==
    /\ relay.down = "write"
    /\ IF relay.clashConn = "closed" \/ relay.clashPeer = "closed"
       THEN relay' = [relay EXCEPT !.down = "send"]
       ELSE relay' = [relay EXCEPT !.toClash = Append(@, relay.downMsg),
                                   !.down = "read"]
    /\ UNCHANGED <<store, watcher, inflight, clash, browser>>

\* errChan <- err, and the goroutine returns
DownSend ==
    /\ relay.down = "send"
    /\ relay.errChan < ErrChanCap
    /\ relay' = [relay EXCEPT !.errChan = @ + 1, !.down = "exited"]
    /\ UNCHANGED <<store, watcher, inflight, clash, browser>>

\* Mutant: the handler returns without closing the connection to the Clash
\* API
HandlerSelect_LeavesClashOpen ==
    /\ relay.handler = "select"
    /\ \/ /\ relay.done
          /\ relay' = [relay EXCEPT !.handler = "returned",
                                    !.clientConn = "closed"]
       \/ /\ relay.errChan > 0
          /\ relay' = [relay EXCEPT !.errChan = @ - 1,
                                    !.handler = "returned",
                                    !.clientConn = "closed"]
    /\ UNCHANGED <<store, watcher, inflight, clash, browser>>

\* The select takes <-done or <-errChan and the handler returns: the
\* deferred clashConn.Close() and clientConn.Close() run
HandlerSelect ==
    /\ relay.handler = "select"
    /\ \/ /\ relay.done
          /\ relay' = [relay EXCEPT !.handler = "returned",
                                    !.clashConn = "closed",
                                    !.clientConn = "closed"]
       \/ /\ relay.errChan > 0
          /\ relay' = [relay EXCEPT !.errChan = @ - 1,
                                    !.handler = "returned",
                                    !.clashConn = "closed",
                                    !.clientConn = "closed"]
    /\ UNCHANGED <<store, watcher, inflight, clash, browser>>

InitRelay ==
    /\ InitOneRequest
    /\ configData = DocA

NextRelay ==
    \/ handleConnectionsWebSocket
    \/ ClashSends
    \/ ClientSends
    \/ ClashCloses
    \/ ClientCloses
    \/ UpRead
    \/ UpWrite
    \/ UpSend
    \/ UpExit
    \/ DownRead
    \/ DownWrite
    \/ DownSend
    \/ HandlerSelect

SpecRelay == InitRelay /\ [][NextRelay]_vars

\* The goroutines and the handler are scheduled as long as they can run
SpecRelayLive ==
    /\ SpecRelay
    /\ WF_vars(UpRead) /\ WF_vars(UpWrite) /\ WF_vars(UpSend)
    /\ WF_vars(UpExit)
    /\ WF_vars(DownRead) /\ WF_vars(DownWrite) /\ WF_vars(DownSend)
    /\ WF_vars(HandlerSelect)

\* A side has closed, or a forwarding loop has got an error
RelayTrouble ==
    /\ relay.handler = "select"
    /\ \/ relay.clientPeer = "closed"
       \/ relay.clashPeer = "closed"
       \/ relay.up \in {"send", "exit", "exited"}
       \/ relay.down \in {"send", "exited"}

RelayTerminated ==
    /\ relay.handler = "returned"
    /\ relay.clientConn = "closed"
    /\ relay.clashConn = "closed"
    /\ relay.up = "exited"
    /\ relay.down = "exited"

\* C16: when a side closes or a forwarding loop gets an error, the handler
\* returns with both connections closed and both goroutines terminate; a
\* goroutine about to send on the error channel always finds room in it, and
\* a goroutine still running when the handler has returned terminates.
C16_RelayTerminates ==
    /\ [](relay.up = "send" \/ relay.down = "send"
            => relay.errChan < ErrChanCap)
    /\ [](relay.handler = "returned" /\ relay.up # "none"
            => relay.clientConn = "closed" /\ relay.clashConn = "closed")
    /\ (RelayTrouble ~> RelayTerminated)
    /\ (relay.handler = "returned"
          ~> relay.up \in {"none", "exited"} /\ relay.down \in {"none", "exited"})

C16_Witness ==
    /\ RelayTerminated
    /\ relay.clashPeer = "open"
    /\ relay.clientPeer = "closed"
    /\ relay.errChan = 1
    /\ Len(relay.toClient) = 1

\* C17: while both connections are open, the frames written to the client
\* are the frames read from the Clash API, in order, and the frames written
\* to the Clash API are the frames read from the client.
C17_FramesForwarded ==
    (/\ relay.handler = "select"
     /\ relay.clientConn = "open" /\ relay.clashConn = "open"
     /\ relay.clientPeer = "open" /\ relay.clashPeer = "open")
      => /\ relay.readClash =
               relay.toClient
                 \o (IF relay.up = "write" THEN <<relay.upMsg>> ELSE <<>>)
         /\ relay.readClient =
               relay.toClash
                 \o (IF relay.down = "write" THEN <<relay.downMsg>> ELSE <<>>)

----------------------------------------------------------------------------
(* Watcher: Start, watch, Stop *)

\* The kinds of operation an fsnotify event carries (event.Op is a bit mask)
EventOps == (SUBSET {"Write", "Create", "Remove"}) \ {{}}

EventNames == {"config", "other"}

\* A timer whose deadline has come and that has not run yet
TimerDue ==
    \E i \in DOMAIN watcher.timers :
        /\ watcher.timers[i].state = "pending"
        /\ watcher.timers[i].deadline <= watcher.clock

\* Start: go w.watch()
WatcherStart ==
    /\ watcher.loop = "new"
    /\ watcher' = [watcher EXCEPT !.loop = "running"]
    /\ UNCHANGED <<store, relay, inflight, clash, browser>>

\* timer.Stop() on the timer the variable refers to, if any
StopTimer(timers, timer) ==
    IF timer # 0 /\ timers[timer].state = "pending"
    THEN [timers EXCEPT ![timer].state = "stopped"]
    ELSE timers

\* Mutant: the pending timer is left running when a new one is made
WatchEvent_Stacks(name, op) ==
    /\ watcher.loop = "running"
    /\ watcher.seen < MaxEvents
    /\ ~TimerDue
    /\ IF name = "config" /\ ("Write" \in op \/ "Create" \in op)
       THEN watcher' =
              [watcher EXCEPT
                 !.seen = @ + 1,
                 !.timers = Append(@,
                              [deadline |-> watcher.clock + Debounce,
                               state |-> "pending"]),
                 !.timer = Len(watcher.timers) + 1,
                 !.events = Append(@, watcher.clock)]
       ELSE watcher' = [watcher EXCEPT !.seen = @ + 1]
    /\ UNCHANGED <<store, relay, inflight, clash, browser>>

\* case event := <-w.watcher.Events: an event on the configuration file that
\* is a write or a create stops the pending timer and makes a new one
WatchEvent(name, op) ==
    /\ watcher.loop = "running"
    /\ watcher.seen < MaxEvents
    /\ ~TimerDue
    /\ IF name = "config" /\ ("Write" \in op \/ "Create" \in op)
       THEN watcher' =
              [watcher EXCEPT
                 !.seen = @ + 1,
                 !.timers = Append(StopTimer(@, watcher.timer),
                              [deadline |-> watcher.clock + Debounce,
                               state |-> "pending"]),
                 !.timer = Len(watcher.timers) + 1,
                 !.events = Append(@, watcher.clock)]
       ELSE watcher' = [watcher EXCEPT !.seen = @ + 1]
    /\ UNCHANGED <<store, relay, inflight, clash, browser>>

\* case err := <-w.watcher.Errors: the error is logged
WatchError ==
    /\ watcher.loop = "running"
    /\ watcher.logged < 1
    /\ watcher' = [watcher EXCEPT !.logged = @ + 1]
    /\ UNCHANGED <<store, relay, inflight, clash, browser>>

\* Stop: close(w.stopCh) and the loop returns; a pending timer is not stopped
WatcherStop ==
    /\ watcher.loop = "running"
    /\ watcher' = [watcher EXCEPT !.loop = "stopped"]
    /\ UNCHANGED <<store, relay, inflight, clash, browser>>

\* The function given to time.AfterFunc runs at the timer's deadline and
\* calls onChange
TimerFires ==
    /\ \E i \in DOMAIN watcher.timers :
          /\ watcher.timers[i].state = "pending"
          /\ watcher.timers[i].deadline <= watcher.clock
          /\ watcher' =
                [watcher EXCEPT
                   !.timers[i].state = "fired",
                   !.calls = Append(@, [t |-> watcher.clock,
                                        n |-> Len(watcher.events)])]
    /\ UNCHANGED <<store, relay, inflight, clash, browser>>

\* Time passes, up to the next deadline
WatcherTick ==
    /\ watcher.clock < MaxClock
    /\ ~TimerDue
    /\ watcher' = [watcher EXCEPT !.clock = @ + 1]
    /\ UNCHANGED <<store, relay, inflight, clash, browser>>

InitWatcher ==
    /\ InitOneRequest
    /\ configData = DocA

NextWatcher ==
    \/ WatcherStart
    \/ \E name \in EventNames, op \in EventOps : WatchEvent(name, op)
    \/ WatchError
    \/ WatcherStop
    \/ TimerFires
    \/ WatcherTick

SpecWatcher == InitWatcher /\ [][NextWatcher]_vars

\* The k-th event is the last of its burst: no event follows it within the
\* debounce delay
LastOfBurst(k) ==
    \/ k = Len(watcher.events)
    \/ watcher.events[k + 1] - watcher.events[k] >= Debounce

CallsAfter(k) ==
    Cardinality({j \in DOMAIN watcher.calls : watcher.calls[j].n = k})

\* C18: onChange is called only for the last event of a burst, once, and
\* exactly the debounce delay after that event; an event that is followed by
\* another within the delay gives no call, and no call comes before any
\* event.
C18_Debounce ==
    /\ \A j \in DOMAIN watcher.calls :
          /\ watcher.calls[j].n >= 1
          /\ watcher.calls[j].t
               = watcher.events[watcher.calls[j].n] + Debounce
    /\ \A k \in DOMAIN watcher.events :
          IF LastOfBurst(k)
          THEN /\ CallsAfter(k) <= 1
               /\ watcher.clock > watcher.events[k] + Debounce
                    => CallsAfter(k) = 1
          ELSE CallsAfter(k) = 0

C18_Witness ==
    /\ Len(watcher.events) = 2
    /\ watcher.events[2] = watcher.events[1] + 1
    /\ watcher.calls = <<[t |-> watcher.events[2] + Debounce, n |-> 2]>>
    /\ watcher.timers[1].state = "stopped"

----------------------------------------------------------------------------
(* Concurrent Server.handleRuleCreate requests.  net/http serves each
   request in its own goroutine; inflight[i] holds the locals of the i-th:
   rule (the form), read (what GetRules returned), rules (after append),
   config (what UpdateRules hands to SaveConfig), seq (the position of its
   write among the writes of the configuration file, 0 before it). *)

RaceRules == {Rule(2, "a"), Rule(3, "direct")}

\* A request arrives and its goroutine starts
RuleCreateArrives ==
    /\ Len(inflight) < MaxWriters
    /\ \E rule \in RaceRules :
          inflight' = Append(inflight,
                        [pc |-> "GetRules", rule |-> rule, read |-> <<>>,
                         rules |-> <<>>, config |-> DefaultConfig,
                         status |-> 0, seq |-> 0, wrote |-> "", reloads |-> 0])
    /\ UNCHANGED store
    /\ UNCHANGED <<relay, watcher, clash, browser>>

\* rules, err := GetRules(); rules = append(rules, rule)
RaceGetRules(i) ==
    /\ inflight[i].pc = "GetRules"
    /\ LET g == GetRules
       IN  IF g.err # ""
           THEN inflight' = [inflight EXCEPT ![i].pc = "done",
                                             ![i].status = 500]
           ELSE inflight' = [inflight EXCEPT
                               ![i].pc = "UpdateRules",
                               ![i].read = g.rules,
                               ![i].rules = Append(g.rules, inflight[i].rule)]
    /\ UNCHANGED store
    /\ UNCHANGED <<relay, watcher, clash, browser>>

\* Mutant: UpdateRules appends the rule to the list it has just loaded
RaceUpdateRules_Merges(i) ==
    /\ inflight[i].pc = "UpdateRules"
    /\ LET l == LoadConfig
       IN  IF l.err # ""
           THEN inflight' = [inflight EXCEPT ![i].pc = "done",
                                             ![i].status = 500]
           ELSE inflight' = [inflight EXCEPT
                               ![i].pc = "BackupConfig",
                               ![i].config =
                                   UpdateRulesConfig(
                                       Append(l.config.rules, inflight[i].rule))]
    /\ UNCHANGED store
    /\ UNCHANGED <<relay, watcher, clash, browser>>

\* UpdateRules(rules): LoadConfig and the rule list set in what it returned
RaceUpdateRules(i) ==
    /\ inflight[i].pc = "UpdateRules"
    /\ IF LoadConfig.err # ""
       THEN inflight' = [inflight EXCEPT ![i].pc = "done", ![i].status = 500]
       ELSE inflight' = [inflight EXCEPT
                           ![i].pc = "BackupConfig",
                           ![i].config = UpdateRulesConfig(inflight[i].rules)]
    /\ UNCHANGED store
    /\ UNCHANGED <<relay, watcher, clash, browser>>

\* SaveConfig: BackupConfig succeeds (nothing to back up, or the backup and
\* its sidecar are written)
RaceBackupOk(i) ==
    /\ inflight[i].pc = "BackupConfig"
    /\ inflight' = [inflight EXCEPT ![i].pc = "WriteConfig"]
    /\ IF ~configExists
       THEN UNCHANGED <<backups, metas, mtimes>>
       ELSE LET name == AutoBackupName(now)
                file == BackupFilename(name, now)
            IN  /\ backups' = WriteFile(backups, file, configData)
                /\ mtimes' = WriteFile(mtimes, file, now)
                /\ metas' = WriteFile(metas, file,
                              Metadata(name, "Automatic backup", now, file))
    /\ UNCHANGED <<configExists, configData, now, pc, req, result, hist,
                   served, relay, watcher, clash, browser>>

\* SaveConfig: BackupConfig fails (the configuration file cannot be read, or
\* the backup file cannot be written and is left as it was or truncated)
RaceBackupFails(i) ==
    /\ inflight[i].pc = "BackupConfig"
    /\ configExists
    /\ inflight' = [inflight EXCEPT ![i].pc = "done", ![i].status = 500]
    /\ \/ UNCHANGED <<backups, mtimes>>
       \/ LET file == BackupFilename(AutoBackupName(now), now)
          IN  /\ backups' = WriteFile(backups, file, Garbage)
              /\ mtimes' = WriteFile(mtimes, file, now)
    /\ UNCHANGED <<configExists, configData, metas, now, pc, req, result, hist,
                   served, relay, watcher, clash, browser>>

\* The number of writes of the configuration file so far
Writes ==
    Cardinality({j \in DOMAIN inflight : inflight[j].seq > 0})

\* SaveConfig: os.WriteFile(m.configPath, data) succeeds
RaceWriteOk(i) ==
    /\ inflight[i].pc = "WriteConfig"
    /\ configExists' = TRUE
    /\ configData' = MarshalIndent(inflight[i].config)
    /\ inflight' = [inflight EXCEPT ![i].pc = "Reload",
                                    ![i].seq = Writes + 1,
                                    ![i].wrote = "ok"]
    /\ UNCHANGED <<backups, metas, mtimes, now, pc, req, result, hist, served,
                   relay, watcher, clash, browser>>

\* SaveConfig: os.WriteFile(m.configPath, data) fails; the file is left as
\* it was or truncated
RaceWriteFails(i) ==
    /\ inflight[i].pc = "WriteConfig"
    /\ \/ /\ UNCHANGED <<configExists, configData>>
          /\ inflight' = [inflight EXCEPT ![i].pc = "done",
                                          ![i].status = 500]
       \/ /\ configExists' = TRUE
          /\ configData' = Garbage
          /\ inflight' = [inflight EXCEPT ![i].pc = "done",
                                          ![i].status = 500,
                                          ![i].seq = Writes + 1,
                                          ![i].wrote = "truncated"]
    /\ UNCHANGED <<backups, metas, mtimes, now, pc, req, result, hist, served,
                   relay, watcher, clash, browser>>

\* serviceManager.Reload(): its error is logged
RaceReload(i) ==
    /\ inflight[i].pc = "Reload"
    /\ inflight' = [inflight EXCEPT ![i].pc = "handleRulesList",
                                    ![i].reloads = @ + 1]
    /\ UNCHANGED store
    /\ UNCHANGED <<relay, watcher, clash, browser>>

\* handleRulesList(w, r): the rule list is read again and rendered
RaceRulesList(i) ==
    /\ inflight[i].pc = "handleRulesList"
    /\ inflight' = [inflight EXCEPT
                      ![i].pc = "done",
                      ![i].status = IF GetRules.err # "" THEN 500 ELSE 200]
    /\ UNCHANGED store
    /\ UNCHANGED <<relay, watcher, clash, browser>>

InitRace ==
    /\ InitOneRequest
    /\ configData = DocA

NextRace ==
    \/ RuleCreateArrives
    \/ \E i \in DOMAIN inflight :
          \/ RaceGetRules(i)
          \/ RaceUpdateRules(i)
          \/ RaceBackupOk(i)
          \/ RaceBackupFails(i)
          \/ RaceWriteOk(i)
          \/ RaceWriteFails(i)
          \/ RaceReload(i)
          \/ RaceRulesList(i)
    \/ Tick

SpecRace == InitRace /\ [][NextRace]_vars

\* C19: nothing orders concurrent handleRuleCreate requests: the file holds
\* what the request that wrote last saved, which is the rule list that
\* request read with its own rule appended, whatever the other requests
\* wrote after that read; so two requests can both answer 200 and leave only
\* one of the two new rules in the file.
C19_LastWriteWins ==
    \A i \in DOMAIN inflight :
        inflight[i].seq > 0 /\ inflight[i].seq = Writes
          => IF inflight[i].wrote = "ok"
             THEN /\ configExists
                  /\ configData.json
                  /\ configData.rules
                       = Append(inflight[i].read, inflight[i].rule)
             ELSE configData = Garbage

C19_Witness ==
    /\ Len(inflight) = 2
    /\ inflight[1].status = 200 /\ inflight[2].status = 200
    /\ inflight[1].rule # inflight[2].rule
    /\ inflight[1].seq = 1 /\ inflight[2].seq = 2
    /\ configData.rules = <<RuleA, inflight[2].rule>>

----------------------------------------------------------------------------
(* Server.handleRuleCreate, handleRuleDelete, handleRuleUpdate,
   handleGroupUpdate, handleRuleActionCreate, handleRuleActionUpdate,
   handleRuleActionDelete, handleConfigRestore *)

\* Mutant: the entries after index are dropped with it
RemoveAt_DropsTail(s, index) == Slice(s, 0, index)

\* append(s[:index], s[index+1:]...)
RemoveAt(s, index) == Slice(s, 0, index) \o Slice(s, index + 1, Len(s))

\* handleRuleCreate: the rule built from the form is appended
handleRuleCreate(rule) ==
    LET g == GetRules
        rules == Append(g.rules, rule)
        r == [NoReq EXCEPT !.op = "ruleCreate", !.rules = rules,
                           !.rule = rule,
                           !.config = UpdateRulesConfig(rules)]
    IN  /\ Begin(r, IF g.err # "" THEN "LoadFailed" ELSE "BackupConfig")
        /\ UNCHANGED <<Disk, now>>

\* Mutant: the index is not compared with the length of the list
handleRuleDelete_NoBoundsCheck(indexStr) ==
    LET index == Atoi(indexStr).n
        valid == ~Atoi(indexStr).err
        g == GetRules
        rules == RemoveAt(g.rules, index)
        r == [NoReq EXCEPT !.op = "ruleDelete", !.from = index,
                           !.fromStr = indexStr,
                           !.rules = rules,
                           !.config = UpdateRulesConfig(rules)]
    IN  /\ Begin(r, IF ~valid THEN "BadRequest"
                    ELSE IF g.err # "" THEN "LoadFailed"
                    ELSE "BackupConfig")
        /\ UNCHANGED <<Disk, now>>

\* handleRuleDelete: the rule at index is removed
handleRuleDelete(indexStr) ==
    LET index == Atoi(indexStr).n
        valid == ~Atoi(indexStr).err
        g == GetRules
        ok == valid /\ InRange(index, g.rules)
        rules == IF ok THEN RemoveAt(g.rules, index) ELSE <<>>
        r == [NoReq EXCEPT !.op = "ruleDelete", !.from = index,
                           !.fromStr = indexStr,
                           !.rules = rules,
                           !.config = UpdateRulesConfig(rules)]
    IN  /\ Begin(r, IF ~valid THEN "BadRequest"
                    ELSE IF g.err # "" THEN "LoadFailed"
                    ELSE IF ~ok THEN "BadRequest"
                    ELSE "BackupConfig")
        /\ UNCHANGED <<Disk, now>>

\* handleRuleUpdate: the rule at index is replaced
handleRuleUpdate(indexStr, rule) ==
    LET index == Atoi(indexStr).n
        valid == ~Atoi(indexStr).err
        g == GetRules
        ok == valid /\ InRange(index, g.rules)
        rules == IF ok THEN [g.rules EXCEPT ![index + 1] = rule] ELSE <<>>
        r == [NoReq EXCEPT !.op = "ruleUpdate", !.from = index,
                           !.rule = rule,
                           !.fromStr = indexStr,
                           !.rules = rules,
                           !.config = UpdateRulesConfig(rules)]
    IN  /\ Begin(r, IF ~valid THEN "BadRequest"
                    ELSE IF g.err # "" THEN "LoadFailed"
                    ELSE IF ~ok THEN "BadRequest"
                    ELSE "BackupConfig")
        /\ UNCHANGED <<Disk, now>>

\* handleGroupUpdate: at least one member is required; the member list of
\* the outbound at index is replaced
handleGroupUpdate(indexStr, members) ==
    LET index == Atoi(indexStr).n
        valid == ~Atoi(indexStr).err
        g == GetOutbounds
        ok == valid /\ InRange(index, g.outbounds)
        obs == IF ok
               THEN [g.outbounds EXCEPT ![index + 1].outbounds = members]
               ELSE <<>>
        r == [NoReq EXCEPT !.op = "groupUpdate", !.from = index,
                           !.fromStr = indexStr,
                           !.members = members,
                           !.config = UpdateOutboundsConfig(obs)]
    IN  /\ Begin(r, IF ~valid \/ members = <<>> THEN "BadRequest"
                    ELSE IF g.err # "" THEN "LoadFailed"
                    ELSE IF ~ok THEN "BadRequest"
                    ELSE "BackupConfig")
        /\ UNCHANGED <<Disk, now>>

\* handleRuleActionCreate: a missing route section is made with an empty
\* rule_action list, and the action is appended
handleRuleActionCreate(action) ==
    LET l == LoadConfig
        cfg == [l.config EXCEPT !.route = TRUE,
                                !.ruleAction = Append(@, action)]
        r == [NoReq EXCEPT !.op = "ruleActionCreate", !.config = cfg]
    IN  /\ Begin(r, IF l.err # "" THEN "LoadFailed" ELSE "BackupConfig")
        /\ UNCHANGED <<Disk, now>>

\* handleRuleActionUpdate: the action at index is replaced
handleRuleActionUpdate(indexStr, action) ==
    LET index == Atoi(indexStr).n
        valid == ~Atoi(indexStr).err
        l == LoadConfig
        ok == valid /\ l.config.route /\ InRange(index, l.config.ruleAction)
        cfg == IF ok
               THEN [l.config EXCEPT !.ruleAction[index + 1] = action]
               ELSE l.config
        r == [NoReq EXCEPT !.op = "ruleActionUpdate", !.from = index,
                           !.fromStr = indexStr,
                           !.config = cfg]
    IN  /\ Begin(r, IF ~valid THEN "BadRequest"
                    ELSE IF l.err # "" THEN "LoadFailed"
                    ELSE IF ~ok THEN "BadRequest"
                    ELSE "BackupConfig")
        /\ UNCHANGED <<Disk, now>>

\* handleRuleActionDelete: the action at index is removed
handleRuleActionDelete(indexStr) ==
    LET index == Atoi(indexStr).n
        valid == ~Atoi(indexStr).err
        l == LoadConfig
        ok == valid /\ l.config.route /\ InRange(index, l.config.ruleAction)
        cfg == IF ok
               THEN [l.config EXCEPT !.ruleAction = RemoveAt(@, index)]
               ELSE l.config
        r == [NoReq EXCEPT !.op = "ruleActionDelete", !.from = index,
                           !.fromStr = indexStr,
                           !.config = cfg]
    IN  /\ Begin(r, IF ~valid THEN "BadRequest"
                    ELSE IF l.err # "" THEN "LoadFailed"
                    ELSE IF ~ok THEN "BadRequest"
                    ELSE "BackupConfig")
        /\ UNCHANGED <<Disk, now>>

\* The form value "backup" left empty
NoBackupName == [name |-> <<>>, stamp |-> 0]

\* handleConfigRestore: a backup name is required; RestoreBackup, then the
\* service reload
handleConfigRestore(file) ==
    /\ Begin([NoReq EXCEPT !.op = "configRestore", !.file = file,
                           !.data = ReadBackupPath(file).data],
             IF file = NoBackupName THEN "BadRequest" ELSE "RestoreRead")
    /\ UNCHANGED <<Disk, now>>

FormRules == {Rule(2, "a")}

FormActions == {"route", "sniff"}

FormMembers == {<<>>, <<"a">>}

\* Configuration files the handlers find: with rules, with outbounds and
\* groups, with a rule_action list, or not a JSON document
HandlerDocs ==
    OutboundDocs \cup {DocA, [DocA EXCEPT !.ruleAction = <<"sniff">>], Garbage}

InitHandlers ==
    /\ InitIdle
    /\ served = MaxOps - 1
    /\ InitBackupDir
    /\ \/ configExists = FALSE /\ configData = NoData
       \/ configExists = TRUE /\ configData \in HandlerDocs

NextHandlers ==
    \/ \E rule \in FormRules : handleRuleCreate(rule)
    \/ \E i \in FormIndexes : handleRuleDelete(i)
    \/ \E i \in FormIndexes, rule \in FormRules : handleRuleUpdate(i, rule)
    \/ \E from, to \in FormIndexes : handleRuleReorder(from, to)
    \/ \E ob \in OutboundForms : handleOutboundCreate(ob)
    \/ \E t \in FormTags, ob \in OutboundForms : handleOutboundUpdate(t, ob)
    \/ \E t \in FormTags : handleOutboundDelete(t)
    \/ \E from, to \in FormIndexes : handleOutboundReorder(from, to)
    \/ \E old, new \in {"a", "c", ""} : handleOutboundRename(old, new)
    \/ \E i \in FormIndexes, m \in FormMembers : handleGroupUpdate(i, m)
    \/ \E a \in FormActions : handleRuleActionCreate(a)
    \/ \E i \in FormIndexes, a \in FormActions : handleRuleActionUpdate(i, a)
    \/ \E i \in FormIndexes : handleRuleActionDelete(i)
    \/ \E f \in DOMAIN backups \cup {MissingFile, NoBackupName} :
          handleConfigRestore(f)
    \/ BadRequest
    \/ LoadFailed
    \/ SaveSteps
    \/ RestoreRead
    \/ RestoreWriteOk
    \/ RestoreWriteFails
    \/ ServiceReload
    \/ Return
    \/ Tick

SpecHandlers == InitHandlers /\ [][NextHandlers]_vars

\* What the request's save leaves in the configuration file
SavedData ==
    IF req.op = "configRestore" THEN req.data ELSE MarshalIndent(req.config)

\* C20: a handler reloads the service once, after its save has succeeded:
\* when the reload is about to run or has run, the configuration file holds
\* what the request saved; the request that reloaded answers 200 whether the
\* reload failed or not; a request that answers anything else did not
\* reload, and no request reloads twice.
C20_ReloadAfterSave ==
    /\ result.reloads <= 1
    /\ pc = "Reload"
         => /\ req.op \in ServerOps
            /\ result.reloads = 0
            /\ req.wroteConfig /\ configExists /\ configData = SavedData
    /\ pc = "done" /\ req.op \in ServerOps
         => /\ result.reloads = 1 <=> result.status = 200
            /\ result.reloads = 1
                 => /\ result.err = ""
                    /\ req.wroteConfig /\ configExists
                    /\ configData = SavedData
            /\ result.reloadFailed => result.reloads = 1
            /\ result.err # "" => result.reloads = 0
    /\ pc \notin {"Reload", "done"} => result.reloads = 0

C20_Witness ==
    /\ pc = "done"
    /\ req.op = "ruleActionCreate"
    /\ result.reloadFailed
    /\ result.reloads = 1
    /\ result.status = 200
    /\ configData.ruleAction = <<"sniff", "route">>

----------------------------------------------------------------------------
(* Requests with an index that is out of range or not a number *)

IndexOps ==
    {"ruleDelete", "ruleUpdate", "ruleReorder", "outboundReorder",
     "ruleActionUpdate", "ruleActionDelete"}

\* The configuration file could be loaded when the request began
LoadedBefore == ~hist.exists \/ hist.data.json

\* The list the request's index points into, as it was when the request
\* began
IndexedList ==
    LET c == IF hist.exists THEN Unmarshal(hist.data) ELSE DefaultConfig
    IN  IF req.op \in {"ruleDelete", "ruleUpdate", "ruleReorder"}
        THEN (IF c.route THEN c.rules ELSE <<>>)
        ELSE IF req.op = "outboundReorder" THEN c.outbounds
        ELSE c.ruleAction

NotANumber ==
    \/ ~req.fromStr.digits
    \/ req.op \in {"ruleReorder", "outboundReorder"} /\ ~req.toStr.digits

OutOfRange(str) == str.digits /\ (str.n < 0 \/ str.n >= Len(IndexedList))

IndexOutOfRange ==
    \/ OutOfRange(req.fromStr)
    \/ req.op \in {"ruleReorder", "outboundReorder"} /\ OutOfRange(req.toStr)

----------------------------------------------------------------------------
(* forms.Builder: BuildForm and determineFieldType.  A type is the sequence
   of its kinds from the outside in: <<"ptr", "slice", "string">> is
   *[]string.  A struct tag is the sequence of the comma-separated parts of
   its json key: <<"">> is the empty tag. *)

\* isSelectField
SelectFields ==
    {"Mode", "ClashMode", "Strategy", "DNSStrategy", "Action", "Method"}

\* getSelectOptions
getSelectOptions(fieldName) ==
    IF fieldName = "Mode" THEN <<"and", "or">>
    ELSE IF fieldName = "ClashMode" THEN <<"direct", "global", "rule">>
    ELSE IF fieldName \in {"Strategy", "DNSStrategy"}
    THEN <<"prefer_ipv4", "prefer_ipv6", "ipv4_only", "ipv6_only">>
    ELSE IF fieldName = "Action"
    THEN <<"route", "sniff", "resolve", "reject", "route-options",
           "hijack-dns">>
    ELSE IF fieldName = "Method" THEN <<"default", "drop">>
    ELSE <<>>

\* FormField{Name: field.Name, JSONTag: jsonName}
FormField(name, jsonName) ==
    [name |-> name, jsonTag |-> jsonName, type |-> "", isArray |-> FALSE,
     arrayType |-> "", placeholder |-> "", options |-> <<>>]

RECURSIVE determineFieldType(_, _)
\* determineFieldType(formField, t): the switch on t.Kind()
determineFieldType(formField, t) ==
    LET kind == Head(t)
    IN  IF kind \in {"slice", "array"}
        THEN LET elem == Head(Tail(t))
             IN  [formField EXCEPT
                    !.isArray = TRUE,
                    !.arrayType = elem,
                    !.type = IF elem = "string" THEN "array"
                             ELSE IF elem \in {"uint16", "int", "int32"}
                             THEN "array"
                             ELSE "textarea",
                    !.placeholder =
                        IF elem \in {"uint16", "int", "int32"}
                        THEN "e.g., 80, 443, 8080" ELSE @]
        ELSE IF kind = "string"
        THEN IF formField.name \in SelectFields
             THEN [formField EXCEPT
                     !.type = "select",
                     !.options = getSelectOptions(formField.name)]
             ELSE [formField EXCEPT !.type = "text"]
        ELSE IF kind = "bool" THEN [formField EXCEPT !.type = "checkbox"]
        ELSE IF kind \in {"int", "int32", "uint16", "uint32"}
        THEN [formField EXCEPT !.type = "number"]
        ELSE IF kind = "ptr" THEN determineFieldType(formField, Tail(t))
        ELSE [formField EXCEPT !.type = "text"]

RECURSIVE BuildFields(_)
\* The loop of BuildForm over the fields of the struct
BuildFields(fields) ==
    IF fields = <<>> THEN <<>>
    ELSE LET field == Head(fields)
             jsonTag == field.tag
         IN  IF jsonTag = <<"">> \/ jsonTag = <<"-">>
             THEN BuildFields(Tail(fields))
             ELSE <<determineFieldType(FormField(field.name, Head(jsonTag)),
                                       field.type)>>
                    \o BuildFields(Tail(fields))

\* reflect.Kind values of the fields
ScalarKinds ==
    {"string", "bool", "int", "int32", "int64", "uint16", "uint32",
     "float64", "struct"}

FieldTypes ==
    {<<k>> : k \in ScalarKinds}
      \cup {<<"slice", k>> : k \in {"string", "uint16", "struct"}}
      \cup {<<"ptr", k>> : k \in {"bool", "int64"}}
      \cup {<<"ptr", "slice", "string">>}

\* Field names with their json tags
FieldTags ==
    {[name |-> "Mode", tag |-> <<"mode", "omitempty">>],
     [name |-> "Port", tag |-> <<"port">>],
     [name |-> "Hidden", tag |-> <<"-">>],
     [name |-> "Plain", tag |-> <<"">>]}

StructFields ==
    {[name |-> f.name, tag |-> f.tag, type |-> t] :
        f \in FieldTags, t \in FieldTypes}

\* The struct types BuildForm may reflect on
FormStructs == SeqsUpTo(StructFields, MaxFields)

\* BuildForm(ruleTypeName) for a known type name: the struct is reflected on
BuildFormCall ==
    /\ \E struct \in FormStructs :
          Begin([NoReq EXCEPT !.op = "buildForm", !.struct = struct],
                "BuildForm")
    /\ UNCHANGED <<Disk, now>>

\* BuildForm returns the form definition
BuildFormReturns ==
    /\ pc = "BuildForm"
    /\ req' = [req EXCEPT !.form = BuildFields(req.struct)]
    /\ Finish("", 0)
    /\ UNCHANGED <<Disk, now, hist, served, beside>>

InitForms ==
    /\ InitOneRequest
    /\ configData = DocA

NextForms ==
    \/ BuildFormCall
    \/ BuildFormReturns
    \/ Return

SpecForms == InitForms /\ [][NextForms]_vars

NumericKinds ==
    {"int", "int8", "int16", "int32", "int64", "uint", "uint8", "uint16",
     "uint32", "uint64", "float32", "float64"}

RECURSIVE Pointee(_)
\* The type under the pointers
Pointee(t) == IF Head(t) = "ptr" THEN Pointee(Tail(t)) ELSE t

\* The fields of the struct that have a json key
Described ==
    SelectSeq(req.struct, LAMBDA f : f.tag # <<"">> /\ f.tag # <<"-">>)

\* C22: the form has one descriptor for each field with a json key, in
\* order, with the name part of the tag as its JSON key; a string is a text
\* widget, or a select for the allow-listed names; a bool is a checkbox;
\* every numeric kind is a number widget; a slice is an array or a textarea
\* with IsArray set; a pointer is what its pointee is.
C22_WidgetKinds ==
    (req.op = "buildForm" /\ pc = "done")
      => /\ Len(req.form) = Len(Described)
         /\ \A i \in DOMAIN req.form :
               LET d == req.form[i]
                   f == Described[i]
                   k == Head(Pointee(f.type))
               IN  /\ d.name = f.name
                   /\ d.jsonTag = Head(f.tag)
                   /\ k = "string"
                        => d.type = IF f.name \in SelectFields
                                    THEN "select" ELSE "text"
                   /\ k = "bool" => d.type = "checkbox"
                   /\ k \in NumericKinds => d.type = "number"
                   /\ k \in {"slice", "array"}
                        => d.isArray /\ d.type \in {"array", "textarea"}
                   /\ k \notin {"slice", "array"} => ~d.isArray

----------------------------------------------------------------------------
(* Manager.UpdateRules and Manager.UpdateOutbounds on documents with
   sections and fields the Config struct does not declare *)

\* UpdateOutbounds(outbounds): load, set the outbound list, save
UpdateOutbounds(outbounds) ==
    LET r == [NoReq EXCEPT !.op = "updateOutbounds",
                           !.config = UpdateOutboundsConfig(outbounds)]
    IN  /\ Begin(r, IF LoadConfig.err # "" THEN "LoadFailed"
                    ELSE "BackupConfig")
        /\ UNCHANGED <<Disk, now>>

SectionOutbounds == {<<>>, <<DirectA>>, <<DirectB, DirectA>>}

InitSections ==
    /\ InitOneRequest
    /\ configData \in
         {d \in RoundTripDocs : ~d.hasRules => d.rules = <<>>} \cup {Garbage}

NextSections ==
    \/ \E r \in StoreRules : UpdateRules(r)
    \/ \E obs \in SectionOutbounds : UpdateOutbounds(obs)
    \/ LoadFailed
    \/ SaveSteps
    \/ Return
    \/ Tick

SpecSections == InitSections /\ [][NextSections]_vars

\* The route section of a document: its rule list, rule-action list, final
\* target, and whether it holds fields RouteConfig does not declare
RouteSection(d) ==
    [present |-> d.hasRoute, rules |-> d.rules, ruleAction |-> d.ruleAction,
     final |-> d.final, others |-> d.routeExtra]

UpdatedSection(op) ==
    /\ req.op = op
    /\ pc = "done"
    /\ result.err = ""

----------------------------------------------------------------------------
(* Rule create, delete and update on rule lists of up to MaxList entries *)

RuleDocs ==
    {RouteDoc(<<>>, TRUE, [i \in DOMAIN l |-> RuleOf(l[i])], "direct",
              FALSE, FALSE) : l \in Lists}
      \cup {EmptyDoc, Garbage}

InitRules ==
    /\ InitOneRequest
    /\ configData \in RuleDocs

NextRules ==
    \/ \E rule \in FormRules : handleRuleCreate(rule)
    \/ \E i \in ListIndexes : handleRuleDelete(i)
    \/ \E i \in ListIndexes, rule \in FormRules : handleRuleUpdate(i, rule)
    \/ BadRequest
    \/ LoadFailed
    \/ SaveSteps
    \/ ServiceReload
    \/ Return
    \/ Tick

SpecRules == InitRules /\ [][NextRules]_vars

\* The rule list the request loaded, and the one it saved
RulesBefore == hist.data.rules

RulesAfter == configData.rules

RuleRequestDone(op) ==
    /\ req.op = op
    /\ pc = "done"
    /\ result.status = 200

\* C24: a rule create saves the list it loaded with the new rule at the
\* end; a rule delete saves it without the entry at index, the entries
\* before index in place and those after it one position lower; a rule
\* update saves it with the entry at index replaced and every other entry
\* in place.
C24_OnePosition ==
    /\ RuleRequestDone("ruleCreate")
         => RulesAfter = RulesBefore \o <<req.rule>>
    /\ RuleRequestDone("ruleDelete")
         => /\ Len(RulesAfter) = Len(RulesBefore) - 1
            /\ \A i \in DOMAIN RulesAfter :
                  RulesAfter[i] = IF i <= req.from THEN RulesBefore[i]
                                  ELSE RulesBefore[i + 1]
    /\ RuleRequestDone("ruleUpdate")
         => /\ Len(RulesAfter) = Len(RulesBefore)
            /\ \A i \in DOMAIN RulesAfter :
                  RulesAfter[i] = IF i = req.from + 1 THEN req.rule
                                  ELSE RulesBefore[i]

C24_Witness ==
    /\ RuleRequestDone("ruleDelete")
    /\ Len(RulesBefore) = 3
    /\ req.from = 1
    /\ RulesBefore[1] = RulesBefore[3]
    /\ RulesBefore[2] # RulesBefore[1]

----------------------------------------------------------------------------
(* Server.handleOutboundDelete on configurations with groups *)

\* Configuration files with pairwise distinct outbound tags: a selector whose
\* default is one of two members, a urltest, a selector with one member
DeleteDocs ==
    OutboundDocs
      \cup {RouteDoc(<<Outbound("s", "selector", <<"a">>, "a"), DirectA,
                       Outbound("u", "urltest", <<"b", "a", "s">>, "a"),
                       DirectB>>,
                     FALSE, <<>>, "b", FALSE, FALSE),
            Garbage}

DeleteTags == {"a", "b", "g", "s", "z", ""}

InitDelete ==
    /\ InitOneRequest
    /\ configData \in DeleteDocs

NextDelete ==
    \/ \E t \in DeleteTags : handleOutboundDelete(t)
    \/ BadRequest
    \/ LoadFailed
    \/ SaveSteps
    \/ ServiceReload
    \/ Return
    \/ Tick

SpecDelete == InitDelete /\ [][NextDelete]_vars

\* The positions of the loaded list that the saved list keeps
Kept == SelectSeq([i \in DOMAIN hist.data.outbounds |-> i],
                  LAMBDA i : hist.data.outbounds[i].tag # req.old)

Carried(tag) ==
    \E i \in DOMAIN hist.data.outbounds : hist.data.outbounds[i].tag = tag

\* C25: after a successful delete of tag the saved list holds the other
\* outbounds in order; a group among them has its former members without
\* tag, in order; a selector whose default was tag has its first remaining
\* member as default, or none; everything else is as it was.  When no
\* outbound carries tag the answer is 400 and nothing is saved.
C25_DeleteCleansGroups ==
    /\ (req.op = "outboundDelete" /\ pc = "done" /\ result.status = 200)
         => /\ Carried(req.old)
            /\ Len(configData.outbounds) = Len(Kept)
            /\ \A j \in DOMAIN configData.outbounds :
                  LET new == configData.outbounds[j]
                      old == hist.data.outbounds[Kept[j]]
                      rest == SelectSeq(old.outbounds,
                                        LAMBDA m : m # req.old)
                  IN  /\ new.tag = old.tag /\ new.tag # req.old
                      /\ new.type = old.type
                      /\ old.type \in GroupTypes
                           => /\ new.outbounds = rest
                              /\ \A k \in DOMAIN new.outbounds :
                                    new.outbounds[k] # req.old
                      /\ old.type \notin GroupTypes => new = old
                      /\ new.default =
                           IF old.type = "selector" /\ old.default = req.old
                           THEN (IF rest = <<>> THEN "" ELSE rest[1])
                           ELSE old.default
    /\ (req.op = "outboundDelete" /\ hist.data.json /\ ~Carried(req.old))
         => /\ pc \in {"BadRequest", "done"}
            /\ pc = "done" => result.status = 400
            /\ ConfigUnchanged
            /\ BackupDirUnchanged

C25_Witness ==
    /\ req.op = "outboundDelete" /\ pc = "done" /\ result.status = 200
    /\ req.old = "a"
    /\ Len(configData.outbounds) = 3
    /\ configData.outbounds[1] = Outbound("s", "selector", <<>>, "")
    /\ configData.outbounds[2] = Outbound("u", "urltest", <<"b", "s">>, "a")

----------------------------------------------------------------------------
(* Manager.RestoreBackup and the names it is given *)

\* The names a caller or the "backup" form value can carry: the backup
\* files, their sidecars, the way out of the directory, a missing file
RestoreNames ==
    DOMAIN backups \cup {MetaName(f) : f \in DOMAIN backups}
                   \cup {LiveName, MissingFile}

InitRestore ==
    /\ InitIdle
    /\ served = 0
    /\ InitBackupDir
    /\ \/ configExists = FALSE /\ configData = NoData
       \/ configExists = TRUE /\ configData \in {DocA, Garbage}

NextRestore ==
    \/ \E f \in RestoreNames : RestoreBackup(f)
    \/ \E f \in RestoreNames \cup {NoBackupName} : handleConfigRestore(f)
    \/ BadRequest
    \/ RestoreRead
    \/ BackupConfig
    \/ CreateBackupReadFails
    \/ CreateBackupWriteFails
    \/ CreateBackupMetaFails
    \/ CreateBackupWritesFile
    \/ RestoreWriteOk
    \/ RestoreWriteFails
    \/ ServiceReload
    \/ Return
    \/ Tick

SpecRestore == InitRestore /\ [][NextRestore]_vars

RestoreOps == {"restore", "configRestore"}

\* The filenames of the records ListBackups returns when the request starts
ListedBackup(file) == file \in DOMAIN hist.backups

\* C26: RestoreBackup writes the configuration file only when the name is
\* the filename of a backup record ListBackups returns; with any other name
\* it returns an error and the configuration file is as it was.
C26_OnlyListedBackups ==
    (req.op \in RestoreOps /\ pc # "BadRequest" /\ ~ListedBackup(req.file))
      => /\ ~req.wroteConfig
         /\ ConfigUnchanged
         /\ pc = "done" => result.err # ""

----------------------------------------------------------------------------
(* The members of the groups in the configuration file *)

GroupOps == {"outboundCreate", "outboundUpdate", "groupUpdate",
             "outboundDelete"}

\* Every selector and urltest of the document has a member
GroupsHaveMembers(data) ==
    \A i \in DOMAIN data.outbounds :
       data.outbounds[i].type \in GroupTypes
          => data.outbounds[i].outbounds # <<>>

\* C27: when every selector and urltest of the configuration file has a
\* member before a create, update, group update or delete of an outbound,
\* every selector and urltest of the file the request saves has one.
C27_GroupsKeepMembers ==
    (req.op \in GroupOps /\ hist.exists /\ hist.data.json
        /\ GroupsHaveMembers(hist.data) /\ configData.json)
      => GroupsHaveMembers(configData)

----------------------------------------------------------------------------
(* Watcher.Stop *)

\* C28: once Stop has returned the watch loop has ended, and from then on
\* onChange is not called, whether or not a debounce timer was pending
\* when Stop was called.
C28_NoCallAfterStop ==
    [][watcher.loop = "stopped"
         => /\ watcher'.loop = "stopped"
            /\ watcher'.calls = watcher.calls]_vars

----------------------------------------------------------------------------
(* Server.handleClashUpdate and Server.handleProxiesSettings.  net/http
   serves each request in its own goroutine and the Server fields are read
   and written without a lock: every read and every write of a field is a
   step of its own. *)

MaxUpdates == 2

MaxReads == 2

HttpURL(host) == [scheme |-> "http://", host |-> host]

\* formatClashURL: "http://" is put before a URL without a protocol
formatClashURL(url) ==
    IF url = EmptyURL THEN EmptyURL
    ELSE IF url.scheme \notin {"http://", "https://"}
    THEN [url EXCEPT !.scheme = "http://"]
    ELSE url

\* clash.NewClient(baseURL, secret)
NewClient(baseURL, secret) ==
    [nil |-> FALSE, baseURL |-> baseURL, secret |-> secret]

\* The fields NewServer fills for an endpoint
ServerWith(e) ==
    [NoClash EXCEPT !.url = e.url, !.secret = e.secret,
                    !.client = IF e.url = EmptyURL THEN NoClient
                               ELSE NewClient(e.url, e.secret)]

Endpoint1 == [url |-> HttpURL("h1"), secret |-> "s1"]

\* The bodies a POST carries
UpdateRequests ==
    {[url |-> [scheme |-> "", host |-> "h2"], secret |-> "s2"],
     [url |-> HttpURL("h1"), secret |-> "s1"],
     [url |-> HttpURL("h2"), secret |-> ""],
     [url |-> EmptyURL, secret |-> "s2"]}

\* The endpoint a successful update installs
NewTriple ==
    [url |-> clash.update.url, secret |-> clash.update.secret,
     client |-> NewClient(clash.update.url, clash.update.secret)]

\* The update is between its first and its last assignment
Installing == clash.update.pc \in {"setURL", "setSecret", "setClient"}

\* The endpoint the server holds, or held before the running update began
\* to assign
HeldTriple ==
    IF Installing
    THEN [url |-> clash.before.url, secret |-> clash.before.secret,
          client |-> clash.before.client]
    ELSE [url |-> clash.url, secret |-> clash.secret,
          client |-> clash.client]

\* handleClashUpdate: the body is decoded and the URL formatted; an empty
\* URL is answered with 400
ClashUpdateArrives(body) ==
    /\ clash.update.pc = "idle"
    /\ clash.updates < MaxUpdates
    /\ LET url == formatClashURL(body.url)
       IN  clash' =
             [clash EXCEPT
                !.updates = @ + 1,
                !.before = [url |-> clash.url, secret |-> clash.secret,
                            client |-> clash.client, file |-> clash.file],
                !.update = [pc |-> IF url = EmptyURL THEN "done" ELSE "test",
                            url |-> url, secret |-> body.secret,
                            status |-> IF url = EmptyURL THEN 400 ELSE 0,
                            tested |-> FALSE]]
    /\ UNCHANGED <<store, relay, watcher, inflight, browser>>

\* json.NewDecoder(r.Body).Decode(&req) fails
ClashUpdateBadBody ==
    /\ clash.update.pc = "idle"
    /\ clash.updates < MaxUpdates
    /\ clash' =
          [clash EXCEPT
             !.updates = @ + 1,
             !.before = [url |-> clash.url, secret |-> clash.secret,
                         client |-> clash.client, file |-> clash.file],
             !.update = [NoUpdate EXCEPT !.pc = "done", !.status = 400]]
    /\ UNCHANGED <<store, relay, watcher, inflight, browser>>

\* clash.TestConnection(url, req.Secret) returns an error
ClashTestFails ==
    /\ clash.update.pc = "test"
    /\ clash' = [clash EXCEPT !.update.pc = "done", !.update.status = 400,
                              !.update.tested = TRUE]
    /\ UNCHANGED <<store, relay, watcher, inflight, browser>>

ClashTestOk ==
    /\ clash.update.pc = "test"
    /\ clash' =
          [clash EXCEPT
             !.update.pc = "setURL", !.update.tested = TRUE,
             !.triples = @ \cup {NewTriple}]
    /\ UNCHANGED <<store, relay, watcher, inflight, browser>>

\* s.clashURL = url
ClashSetURL ==
    /\ clash.update.pc = "setURL"
    /\ clash' = [clash EXCEPT !.url = clash.update.url,
                              !.update.pc = "setSecret"]
    /\ UNCHANGED <<store, relay, watcher, inflight, browser>>

\* s.clashSecret = req.Secret
ClashSetSecret ==
    /\ clash.update.pc = "setSecret"
    /\ clash' = [clash EXCEPT !.secret = clash.update.secret,
                              !.update.pc = "setClient"]
    /\ UNCHANGED <<store, relay, watcher, inflight, browser>>

\* s.clashClient = clash.NewClient(url, req.Secret)
ClashSetClient ==
    /\ clash.update.pc = "setClient"
    /\ clash' = [clash EXCEPT
                   !.client = NewClient(clash.update.url, clash.update.secret),
                   !.update.pc = "save"]
    /\ UNCHANGED <<store, relay, watcher, inflight, browser>>

\* s.clashConfigMgr.Save(config) writes the endpoint file; the answer is 200
ClashSaveOk ==
    /\ clash.update.pc = "save"
    /\ clash' = [clash EXCEPT
                   !.file = [url |-> clash.update.url,
                             secret |-> clash.update.secret],
                   !.update.pc = "done", !.update.status = 200]
    /\ UNCHANGED <<store, relay, watcher, inflight, browser>>

\* Save fails (or there is no ConfigManager): a warning is logged and the
\* answer is still 200
ClashSaveFails ==
    /\ clash.update.pc = "save"
    /\ clash' = [clash EXCEPT !.update.pc = "done", !.update.status = 200]
    /\ UNCHANGED <<store, relay, watcher, inflight, browser>>

ClashUpdateReturns ==
    /\ clash.update.pc = "done"
    /\ clash' = [clash EXCEPT !.update = NoUpdate]
    /\ UNCHANGED <<store, relay, watcher, inflight, browser>>

\* handleProxiesSettings begins
SettingsArrives ==
    /\ clash.reader.pc = "idle"
    /\ clash.reads < MaxReads
    /\ clash' = [clash EXCEPT
                   !.reads = @ + 1,
                   !.triples = {HeldTriple}
                      \cup (IF Installing THEN {NewTriple} ELSE {}),
                   !.reader = [NoSettings EXCEPT !.pc = "readURL"]]
    /\ UNCHANGED <<store, relay, watcher, inflight, browser>>

\* "ClashURL": s.clashURL
SettingsReadURL ==
    /\ clash.reader.pc = "readURL"
    /\ clash' = [clash EXCEPT !.reader.url = clash.url,
                              !.reader.pc = "readSecret"]
    /\ UNCHANGED <<store, relay, watcher, inflight, browser>>

\* "ClashSecret": s.clashSecret
SettingsReadSecret ==
    /\ clash.reader.pc = "readSecret"
    /\ clash' = [clash EXCEPT !.reader.secret = clash.secret,
                              !.reader.pc = "readClient"]
    /\ UNCHANGED <<store, relay, watcher, inflight, browser>>

\* "HasClashClient": s.clashClient != nil
SettingsReadClient ==
    /\ clash.reader.pc = "readClient"
    /\ clash' = [clash EXCEPT !.reader.hasClient = ~clash.client.nil,
                              !.reader.pc = "done"]
    /\ UNCHANGED <<store, relay, watcher, inflight, browser>>

SettingsReturns ==
    /\ clash.reader.pc = "done"
    /\ clash' = [clash EXCEPT !.reader = NoSettings]
    /\ UNCHANGED <<store, relay, watcher, inflight, browser>>

InitClash ==
    /\ now = 0
    /\ pc = "idle"
    /\ req = NoReq
    /\ result = NoResult
    /\ hist = NoHist
    /\ served = 0
    /\ configExists = TRUE
    /\ configData = DocA
    /\ backups = EmptyDir
    /\ metas = EmptyDir
    /\ mtimes = EmptyDir
    /\ relay = NoRelay
    /\ watcher = NoWatcher
    /\ inflight = NoInflight
    /\ browser = NoBrowser
    /\ \E e \in {NoEndpoint, Endpoint1}, f \in {NoEndpoint, Endpoint1} :
          clash = [ServerWith(e) EXCEPT !.file = f]

NextClash ==
    \/ \E body \in UpdateRequests : ClashUpdateArrives(body)
    \/ ClashUpdateBadBody
    \/ ClashTestFails
    \/ ClashTestOk
    \/ ClashSetURL
    \/ ClashSetSecret
    \/ ClashSetClient
    \/ ClashSaveOk
    \/ ClashSaveFails
    \/ ClashUpdateReturns
    \/ SettingsArrives
    \/ SettingsReadURL
    \/ SettingsReadSecret
    \/ SettingsReadClient
    \/ SettingsReturns

SpecClash == InitClash /\ [][NextClash]_vars

\* What the settings page was given
Observed == [url |-> clash.reader.url, secret |-> clash.reader.secret,
             hasClient |-> clash.reader.hasClient]

View(t) == [url |-> t.url, secret |-> t.secret, hasClient |-> ~t.client.nil]

\* C29: a handleProxiesSettings request that runs beside handleClashUpdate
\* is given the URL, the secret and the client of one endpoint, the old or
\* the new; and after a failed connection test the three fields and the
\* endpoint file are as they were.
C29_EndpointConsistent ==
    /\ clash.reader.pc = "done"
         => \E t \in clash.triples : Observed = View(t)
    /\ (clash.update.pc = "done" /\ clash.update.tested
            /\ clash.update.status = 400)
         => /\ clash.url = clash.before.url
            /\ clash.secret = clash.before.secret
            /\ clash.client = clash.before.client
            /\ clash.file = clash.before.file

----------------------------------------------------------------------------
(* ConnectionsManager.connectWebSocket and attemptReconnect of
   connections.js.  browser.clock is in milliseconds; scheduled holds the
   setTimeout calls made since the socket last opened. *)

MaxOpens == 2

maxReconnectAttempts == 5

BaseDelay == 1000

MaxDelay == 30000

\* Mutant: the delay is not capped
ReconnectDelay_Uncapped(attempts) == BaseDelay * 2 ^ attempts

\* Math.min(1000 * Math.pow(2, this.reconnectAttempts), 30000)
ReconnectDelay(attempts) ==
    IF BaseDelay * 2 ^ attempts < MaxDelay
    THEN BaseDelay * 2 ^ attempts
    ELSE MaxDelay

\* init(): connectWebSocket() makes the first socket
connectWebSocket ==
    /\ browser.ws = "none"
    /\ browser' = [browser EXCEPT !.ws = "connecting"]
    /\ UNCHANGED <<store, relay, watcher, inflight, clash>>

\* new WebSocket(wsUrl) throws: the catch block reports it and no handler
\* is installed
ConnectThrows ==
    /\ \/ browser.ws = "none"
       \/ browser.ws = "closed" /\ browser.timer # 0
    /\ browser' = [browser EXCEPT
                     !.ws = "failed",
                     !.clock = IF browser.timer # 0 THEN browser.timer ELSE @,
                     !.timer = 0]
    /\ UNCHANGED <<store, relay, watcher, inflight, clash>>

\* ws.onopen: the attempt counter is reset
SocketOpens ==
    /\ browser.ws = "connecting"
    /\ browser.opens < MaxOpens
    /\ browser' = [browser EXCEPT !.ws = "open", !.reconnectAttempts = 0,
                                  !.opens = @ + 1, !.scheduled = <<>>]
    /\ UNCHANGED <<store, relay, watcher, inflight, clash>>

\* ws.onclose calls attemptReconnect(): below the limit the counter is
\* incremented and connectWebSocket is scheduled; at the limit the status
\* becomes "Connection Lost"
SocketCloses ==
    /\ browser.ws \in {"connecting", "open"}
    /\ IF browser.reconnectAttempts < maxReconnectAttempts
       THEN LET attempts == browser.reconnectAttempts + 1
                delay == ReconnectDelay(attempts)
            IN  browser' =
                  [browser EXCEPT
                     !.ws = "closed",
                     !.reconnectAttempts = attempts,
                     !.timer = browser.clock + delay,
                     !.scheduled = Append(@, [attempt |-> attempts,
                                              delay |-> delay,
                                              at |-> browser.clock])]
       ELSE browser' = [browser EXCEPT !.ws = "lost"]
    /\ UNCHANGED <<store, relay, watcher, inflight, clash>>

\* The setTimeout callback runs after the delay: connectWebSocket()
ReconnectTimerFires ==
    /\ browser.ws = "closed"
    /\ browser.timer # 0
    /\ browser' = [browser EXCEPT !.ws = "connecting",
                                  !.clock = browser.timer, !.timer = 0]
    /\ UNCHANGED <<store, relay, watcher, inflight, clash>>

InitBrowser ==
    /\ InitOneRequest
    /\ configData = DocA

NextBrowser ==
    \/ connectWebSocket
    \/ ConnectThrows
    \/ SocketOpens
    \/ SocketCloses
    \/ ReconnectTimerFires

SpecBrowser == InitBrowser /\ [][NextBrowser]_vars

\* C30: since the socket last opened at most 5 reconnects have been
\* scheduled; the k-th of them is attempt k with a delay of
\* min(1000 * 2^k, 30000) ms, and it runs that long after it was scheduled;
\* an open socket has the attempt counter at 0; and when the socket closes
\* after the fifth attempt nothing is scheduled.
C30_ReconnectBounded ==
    /\ browser.reconnectAttempts \in 0..5
    /\ Len(browser.scheduled) = browser.reconnectAttempts
    /\ \A k \in DOMAIN browser.scheduled :
          /\ browser.scheduled[k].attempt = k
          /\ browser.scheduled[k].delay
               = (IF 1000 * 2 ^ k < 30000 THEN 1000 * 2 ^ k ELSE 30000)
    /\ browser.timer # 0
         => /\ browser.ws = "closed"
            /\ LET last == browser.scheduled[Len(browser.scheduled)]
               IN  browser.timer = last.at + last.delay
    /\ browser.ws = "connecting" /\ browser.scheduled # <<>>
         => LET last == browser.scheduled[Len(browser.scheduled)]
            IN  browser.clock = last.at + last.delay
    /\ browser.ws = "open" => browser.reconnectAttempts = 0
    /\ browser.ws = "lost"
         => /\ browser.timer = 0
            /\ browser.reconnectAttempts = 5

C30_Witness ==
    /\ browser.ws = "lost"
    /\ browser.opens = 1
    /\ Len(browser.scheduled) = 5
    /\ browser.scheduled[1].delay = 2000
    /\ browser.scheduled[4].delay = 16000
    /\ browser.scheduled[5].delay = 30000

====
